---- MODULE Spec2Model ----
(***************************************************************************)
(* A model of ducky64/labelmaker: the layout loop of labelmaker.py and the *)
(* template engine of SvgTemplate.py (Command, the filters, SvgTemplate).  *)
(* Every component has its own specification over the shared variables;    *)
(* the variables of the components a specification does not run stay at    *)
(* their idle values.                                                      *)
(***************************************************************************)
EXTENDS Integers, Sequences, FiniteSets, TLC

(***************************************************************************)
(* Bounds of the model.                                                    *)
(***************************************************************************)
\* grid bounds and starting indices are drawn from -1..MaxDim
MaxDim == 3
\* the data file holds at most MaxRows rows
MaxRows == 7

VARIABLES
  \* ---- labelmaker.py __main__ ----
  lpc,          \* position in the script: start, loop, done, rejected, aborted
  dir,          \* args.dir
  num_rows,     \* config sheet.nrows
  num_cols,     \* config sheet.ncols
  start_row,    \* args.start_row
  start_col,    \* args.start_col
  rows_left,    \* rows the data_reader has not yielded yet
  naccepted,    \* rows that passed the --only filter so far
  min_max,
  maj_max,
  curr_min,
  curr_maj,
  curr_page,
  output_open,  \* output is not None
  output,       \* the groups appended to the open page
  written,      \* the files written: <<page index, groups>> records in order
  \* ---- SvgTemplate.py Command ----
  cmd_obj,      \* a Command instance (its fields), or the error of its constructor
  fin,          \* outcome of the last finalize() since the last accessor call
  last_err,     \* error raised by the last accessor call, "" when it returned
  returned_pos, \* positional indices an accessor has returned so far
  returned_kw,  \* keyword keys an accessor has returned the value of so far
  \* ---- SvgTemplate.py: one apply() call of one filter on one element ----
  fpc,          \* ready (before the call), applied (after it)
  filt,         \* the class of the filter
  elt0,         \* the element as it is handed to apply()
  res,          \* what the call left: the error raised, the element, ...
  \* ---- SvgTemplate.py SvgTemplate and the trees it hands out ----
  doc,          \* the root element ET.parse read (line 368), as it was read
  filters,      \* self.filters: the classes of the filters in declared order
  heap,         \* the element trees that exist, one object per entry
  base_etree,   \* self.base_etree: a reference into heap, 0 before construction
  template_elts,\* self.template_elts: references into heap
  pages,        \* the references clone_base() returned
  cloned,       \* the tree each clone_base() returned, as it was on return
  returned,     \* per finished generate(): the row, the references, the trees
  budget,       \* calls and changes to returned trees the caller still makes
  \* ---- SvgTemplate.generate in progress ----
  gpc,          \* idle, running, done (returned), raised
  row_dict,     \* the row handed to generate()
  elts,         \* the deep copy of template_elts: references into heap
  fidx,         \* the filter of the outer loop, from 1
  eidx,         \* the fragment of the inner loop, from 1
  stack,        \* the frames of substitute(): <<path, children iterated>>
  visits,       \* the apply() calls made so far, in order
  taken,        \* <<filter, id>> of the nodes a visit took out of its element
  gone,         \* those of them that were not in the element when the visit ended
  passes,       \* the trees of elts as they were when each filter's pass ended
  gerr,         \* the error generate() raised
  gkey,         \* the key a missing-key error names
  \* ---- SvgTemplate.py StyleFilter.replace, called again on its own result ----
  spc,          \* ready, once (after the first call), twice
  style_cmd,    \* command_text of both calls
  style_rect,   \* rect_elt as it is before the first call
  style_once,   \* what the first call left
  style_twice,  \* what the second call, on the rectangle of the first, left
  \* ---- labelprinter.py __main__ and the data file it watches ----
  wpc,          \* start, idle (between polls), scan, render, crashed
  data_fresh,   \* args.data_fresh
  only_parse_key, \* is --only given
  file_exists,  \* os.path.isfile(args.data)
  file_rows,    \* the rows of the data file, as csv.DictReader yields them
  mod_time,     \* os.path.getmtime(args.data)
  nmods,        \* how often the file has been changed
  last_mod_time,\* 0 for None
  seen_set,
  reading,      \* the rows the data_reader of the scan yields
  scan_pos,     \* the row of reading the loop of traverse is at, from 1
  new_seen,     \* seen_set inside traverse
  scan_mod,     \* mod_time of the loop iteration that scans
  scan_prev,    \* the seen_set that print_fn was given
  scan_out,     \* the rows rendered and dispatched in this scan, canonicalized
  nscans,       \* the scans begun
  in_flight,    \* inkscape processes that run
  werr          \* the exception that ended the program

layoutVars == <<lpc, dir, num_rows, num_cols, start_row, start_col, rows_left,
                naccepted, min_max, maj_max, curr_min, curr_maj, curr_page,
                output_open, output, written>>

cmdVars == <<cmd_obj, fin, last_err, returned_pos, returned_kw>>

filterVars == <<fpc, filt, elt0, res>>

templateVars == <<doc, filters, heap, base_etree, template_elts, pages, cloned,
                  returned, budget>>

generateVars == <<gpc, row_dict, elts, fidx, eidx, stack, visits, taken,
                  gone, passes, gerr, gkey>>

styleVars == <<spc, style_cmd, style_rect, style_once, style_twice>>

watchVars == <<wpc, data_fresh, only_parse_key, file_exists, file_rows,
               mod_time, nmods, last_mod_time, seen_set, reading, scan_pos,
               new_seen, scan_mod, scan_prev, scan_out, nscans, in_flight,
               werr>>

vars == <<layoutVars, cmdVars, filterVars, templateVars, generateVars,
          styleVars, watchVars>>

nonLayoutVars == <<cmdVars, filterVars, templateVars, generateVars, styleVars,
                   watchVars>>
nonCmdVars == <<layoutVars, filterVars, templateVars, generateVars, styleVars,
                watchVars>>
nonFilterVars == <<layoutVars, cmdVars, templateVars, generateVars, styleVars,
                   watchVars>>
nonTemplateVars == <<layoutVars, cmdVars, filterVars, styleVars, watchVars>>
nonStyleVars == <<layoutVars, cmdVars, filterVars, templateVars, generateVars,
                  watchVars>>
nonWatchVars == <<layoutVars, cmdVars, filterVars, templateVars, generateVars,
                  styleVars>>

(***************************************************************************)
(* Strings are sequences of one-character strings.                         *)
(***************************************************************************)
\* str.startswith
StartsWith(s, p) == Len(s) >= Len(p) /\ SubSeq(s, 1, Len(p)) = p

\* ch in s
Contains(s, ch) == \E i \in 1..Len(s) : s[i] = ch

RECURSIVE SplitFrom(_, _, _, _)
SplitFrom(s, sep, i, cur) ==
  IF i > Len(s) THEN <<cur>>
  ELSE IF s[i] = sep THEN <<cur>> \o SplitFrom(s, sep, i + 1, <<>>)
  ELSE SplitFrom(s, sep, i + 1, Append(cur, s[i]))

\* str.split(sep) for a one-character separator: empty pieces are kept
Split(s, sep) == SplitFrom(s, sep, 1, <<>>)

\* [elt for elt in seq if elt]
RECURSIVE NonEmpty(_)
NonEmpty(seq) ==
  IF seq = <<>> THEN <<>>
  ELSE (IF Head(seq) = <<>> THEN <<>> ELSE <<Head(seq)>>) \o NonEmpty(Tail(seq))

\* sep.join(seq)
RECURSIVE Join(_, _)
Join(seq, sep) ==
  IF seq = <<>> THEN <<>>
  ELSE IF Len(seq) = 1 THEN seq[1]
  ELSE seq[1] \o sep \o Join(Tail(seq), sep)

\* the set of all sequences over S of length at most n
RECURSIVE SeqsUpTo(_, _)
SeqsUpTo(S, n) ==
  IF n = 0 THEN {<<>>}
  ELSE LET shorter == SeqsUpTo(S, n - 1) IN
         shorter \cup {Append(q, x) : q \in shorter, x \in S}

(***************************************************************************)
(* labelmaker.py: the layout loop                                          *)
(***************************************************************************)
Dims == (0 - 1)..MaxDim

LayoutIdle ==
  /\ lpc = "idle" /\ dir = "col" /\ num_rows = 0 /\ num_cols = 0
  /\ start_row = 0 /\ start_col = 0 /\ rows_left = 0 /\ naccepted = 0
  /\ min_max = 0 /\ maj_max = 0 /\ curr_min = 0 /\ curr_maj = 0
  /\ curr_page = 0 /\ output_open = FALSE /\ output = <<>> /\ written = <<>>

\* the command line and the configuration have been read (lines 54-113)
LayoutInit ==
  /\ lpc = "start"
  /\ dir \in {"row", "col"}
  /\ num_rows \in Dims /\ num_cols \in Dims
  /\ start_row \in Dims /\ start_col \in Dims
  /\ rows_left \in 0..MaxRows
  /\ naccepted = 0
  /\ min_max = 0 /\ maj_max = 0 /\ curr_min = 0 /\ curr_maj = 0
  /\ curr_page = 0 /\ output_open = FALSE /\ output = <<>> /\ written = <<>>

\* lines 115-136: direction setup, the two asserts, curr_page = 0, output = None
Setup ==
  /\ lpc = "start"
  /\ min_max' = (IF dir = "row" THEN num_cols ELSE num_rows)
  /\ maj_max' = (IF dir = "row" THEN num_rows ELSE num_cols)
  /\ curr_min' = (IF dir = "row" THEN start_col ELSE start_row)
  /\ curr_maj' = (IF dir = "row" THEN start_row ELSE start_col)
  /\ lpc' = (IF curr_min' < min_max' /\ curr_maj' < maj_max'
             THEN "loop" ELSE "rejected")
  /\ curr_page' = 0 /\ output_open' = FALSE
  /\ UNCHANGED nonLayoutVars
  /\ UNCHANGED <<dir, num_rows, num_cols, start_row, start_col, rows_left,
                 naccepted, output, written>>

\* lines 139-142: the row does not pass the --only filter
SkipRow ==
  /\ lpc = "loop" /\ rows_left > 0
  /\ rows_left' = rows_left - 1
  /\ UNCHANGED nonLayoutVars
  /\ UNCHANGED <<lpc, dir, num_rows, num_cols, start_row, start_col, naccepted,
                 min_max, maj_max, curr_min, curr_maj, curr_page, output_open,
                 output, written>>

\* lines 153-164: the translation group of the row; col and row are the
\* multipliers of incx and incy in pos_x and pos_y
NewGroup(k, filled) ==
  [k |-> k,
   col |-> (IF dir = "row" THEN curr_min ELSE curr_maj),
   row |-> (IF dir = "row" THEN curr_maj ELSE curr_min),
   min |-> curr_min, maj |-> curr_maj,
   filled |-> filled]

\* line 144-151: a page is opened when none is
OpenPage == IF output_open THEN output ELSE <<>>

\* lines 169-172
AdvanceMin == IF curr_min + 1 = min_max THEN 0 ELSE curr_min + 1
AdvanceMaj == IF curr_min + 1 = min_max THEN curr_maj + 1 ELSE curr_maj

\* lines 173-179
PageFull == AdvanceMaj = maj_max

\* lines 138-179: one accepted row whose generate() returns
PlaceRow ==
  /\ lpc = "loop" /\ rows_left > 0
  /\ rows_left' = rows_left - 1
  /\ naccepted' = naccepted + 1
  /\ LET page == Append(OpenPage, NewGroup(naccepted, TRUE)) IN
       /\ curr_min' = AdvanceMin
       /\ IF PageFull
          THEN /\ written' = Append(written, [page |-> curr_page, groups |-> page])
               /\ curr_maj' = 0
               /\ curr_page' = curr_page + 1
               /\ output_open' = FALSE
               /\ output' = <<>>
          ELSE /\ written' = written
               /\ curr_maj' = AdvanceMaj
               /\ curr_page' = curr_page
               /\ output_open' = TRUE
               /\ output' = page
  /\ UNCHANGED nonLayoutVars
  /\ UNCHANGED <<lpc, dir, num_rows, num_cols, start_row, start_col, min_max,
                 maj_max>>

\* a loop that drops a row whose generate() raises and goes on
FailRowSkipping ==
  /\ lpc = "loop" /\ rows_left > 0
  /\ rows_left' = rows_left - 1
  /\ naccepted' = naccepted + 1
  /\ output_open' = TRUE
  /\ output' = Append(OpenPage, NewGroup(naccepted, FALSE))
  /\ lpc' = "loop"
  /\ UNCHANGED nonLayoutVars
  /\ UNCHANGED <<dir, num_rows, num_cols, start_row, start_col, min_max,
                 maj_max, curr_min, curr_maj, curr_page, written>>

\* lines 138-166: one accepted row whose generate() raises; the exception
\* leaves the loop and the script
FailRow ==
  /\ lpc = "loop" /\ rows_left > 0
  /\ rows_left' = rows_left - 1
  /\ naccepted' = naccepted + 1
  /\ output_open' = TRUE
  /\ output' = Append(OpenPage, NewGroup(naccepted, FALSE))
  /\ lpc' = "aborted"
  /\ UNCHANGED nonLayoutVars
  /\ UNCHANGED <<dir, num_rows, num_cols, start_row, start_col, min_max,
                 maj_max, curr_min, curr_maj, curr_page, written>>

\* a Finish that writes the page whether or not one is open
FinishAlways ==
  /\ lpc = "loop" /\ rows_left = 0
  /\ lpc' = "done"
  /\ written' = Append(written, [page |-> curr_page, groups |-> output])
  /\ UNCHANGED nonLayoutVars
  /\ UNCHANGED <<dir, num_rows, num_cols, start_row, start_col, rows_left,
                 naccepted, min_max, maj_max, curr_min, curr_maj, curr_page,
                 output_open, output>>

\* lines 181-182: the data is exhausted
Finish ==
  /\ lpc = "loop" /\ rows_left = 0
  /\ lpc' = "done"
  /\ written' = (IF output_open
                 THEN Append(written, [page |-> curr_page, groups |-> output])
                 ELSE written)
  /\ UNCHANGED nonLayoutVars
  /\ UNCHANGED <<dir, num_rows, num_cols, start_row, start_col, rows_left,
                 naccepted, min_max, maj_max, curr_min, curr_maj, curr_page,
                 output_open, output>>

LayoutNext == Setup \/ SkipRow \/ PlaceRow \/ FailRow \/ Finish

\* the pages of the run so far: the files written and the page still open
Pages ==
  written \o (IF output_open /\ lpc = "loop"
              THEN <<[page |-> curr_page, groups |-> output]>> ELSE <<>>)

\* the cell of a group counted in the traversal direction
CellOf(g) ==
  IF dir = "row" THEN g.row * num_cols + g.col ELSE g.col * num_rows + g.row

(***************************************************************************)
(* C1: pagination puts the k-th accepted row of a run that starts at (0,0) *)
(* and meets no error on page k div (R*C), cell k mod (R*C) in traversal    *)
(* order; the files are numbered 0,1,2,... each written once; every file    *)
(* but the last holds R*C groups, the last the remainder and never zero;    *)
(* at the end ceil(N / (R*C)) files exist.                                  *)
(***************************************************************************)
C1_Pagination ==
  (lpc \in {"loop", "done"} /\ start_row = 0 /\ start_col = 0) =>
    LET RC == num_rows * num_cols
        N  == naccepted
    IN /\ \A j \in 1..Len(Pages) :
            /\ Pages[j].page = j - 1
            /\ \A i \in 1..Len(Pages[j].groups) :
                 LET g == Pages[j].groups[i] IN
                   /\ g.filled
                   /\ g.k = (j - 1) * RC + (i - 1)
                   /\ g.k \div RC = j - 1
                   /\ CellOf(g) = g.k % RC
                   /\ (dir = "row" => g.col = g.k % num_cols)
                   /\ (dir = "col" => g.row = g.k % num_rows)
       /\ \A j \in 1..Len(written) :
            /\ Len(written[j].groups) > 0
            /\ (j < Len(written) \/ lpc = "loop")
                 => Len(written[j].groups) = RC
       /\ lpc = "loop" => Len(written) = N \div RC
       /\ lpc = "done" =>
            /\ Len(written) = (N + RC - 1) \div RC
            /\ N > 0 => Len(written[Len(written)].groups)
                           = N - (Len(written) - 1) * RC

\* a 2 x 3 row-major run of 7 rows has ended with two files of 6 and 1
C1_Witness ==
  /\ lpc = "done" /\ dir = "row" /\ num_rows = 2 /\ num_cols = 3
  /\ start_row = 0 /\ start_col = 0 /\ naccepted = 7
  /\ Len(written) = 2
  /\ Len(written[1].groups) = 6 /\ Len(written[2].groups) = 1

(***************************************************************************)
(* C2: in every accepted run, each row is placed at indices strictly below *)
(* their bounds: minor_index < minor_bound and major_index < major_bound.   *)
(***************************************************************************)
C2_IndexInvariant ==
  \A j \in 1..Len(Pages) : \A i \in 1..Len(Pages[j].groups) :
    LET g == Pages[j].groups[i] IN g.min < min_max /\ g.maj < maj_max


(***************************************************************************)
(* C11: a row whose generation fails ends the run there.  No file ever     *)
(* holds a group of a row whose generate() raised; the step in which a row *)
(* fails leaves the layout indices, the page counter and the files as they *)
(* were; and after it nothing happens any more: no later row is read or    *)
(* placed, no file is written, the run does not go on past the row.        *)
(***************************************************************************)
C11_FailFast ==
  /\ [](\A j \in 1..Len(written) : \A i \in 1..Len(written[j].groups) :
          written[j].groups[i].filled)
  /\ [][/\ lpc /= "aborted"
        /\ (lpc' = "aborted" =>
              /\ curr_min' = curr_min /\ curr_maj' = curr_maj
              /\ curr_page' = curr_page /\ written' = written
              /\ ~output'[Len(output')].filled)]_vars

\* the run has been aborted by a row that follows placed rows on an open
\* page, after a file was written and with rows still unread
C11_Witness ==
  /\ lpc = "aborted" /\ written /= <<>> /\ rows_left > 0
  /\ Len(output) >= 2 /\ ~output[Len(output)].filled

(***************************************************************************)
(* SvgTemplate.py: Command                                                 *)
(***************************************************************************)
\* a dict kept as the sequence of its <<key, value>> items in insertion order
HasKey(d, key) == \E i \in 1..Len(d) : d[i][1] = key
Lookup(d, key) == d[CHOOSE i \in 1..Len(d) : d[i][1] = key][2]
Keys(d) == {d[i][1] : i \in 1..Len(d)}

\* lines 143-152: the loop over cmd_args
RECURSIVE ParseArgs(_, _, _, _)
ParseArgs(cmd_args, i, kw_args, pos_args) ==
  IF i > Len(cmd_args)
  THEN [err |-> "", kw_args |-> kw_args, pos_args |-> pos_args]
  ELSE LET cmd_arg == cmd_args[i] IN
    IF Contains(cmd_arg, "=")
    THEN LET arg_split == Split(cmd_arg, "=") IN
           IF Len(arg_split) /= 2 \/ HasKey(kw_args, arg_split[1])
           THEN [err |-> "CommandSyntaxError", kw_args |-> <<>>, pos_args |-> <<>>]
           ELSE ParseArgs(cmd_args, i + 1,
                          Append(kw_args, <<arg_split[1], arg_split[2]>>), pos_args)
    ELSE ParseArgs(cmd_args, i + 1, kw_args, Append(pos_args, cmd_arg))

FailedCommand(cmd_str, err) ==
  [err |-> err, cmd_str |-> cmd_str, cmd |-> <<>>, kw_args |-> <<>>,
   pos_args |-> <<>>, kw_args_accessed |-> {}, pos_args_accessed |-> {}]

\* Command.__init__ (lines 133-155)
Command(cmd_str) ==
  LET cmd_split == NonEmpty(Split(cmd_str, " ")) IN
    IF cmd_split = <<>> THEN FailedCommand(cmd_str, "IndexError")
    ELSE IF ~StartsWith(cmd_split[1], <<"#">>)
    THEN FailedCommand(cmd_str, "CommandSyntaxError")
    ELSE LET parsed == ParseArgs(Tail(cmd_split), 1, <<>>, <<>>) IN
      IF parsed.err /= "" THEN FailedCommand(cmd_str, parsed.err)
      ELSE [err |-> "", cmd_str |-> cmd_str, cmd |-> Tail(cmd_split[1]),
            kw_args |-> parsed.kw_args, pos_args |-> parsed.pos_args,
            kw_args_accessed |-> {}, pos_args_accessed |-> {}]

\* Command.get_num_pos_args (lines 157-158)
get_num_pos_args(c) == Len(c.pos_args)

\* a get_pos_arg that returns the argument without recording the access
get_pos_arg_unmarked(c, index) ==
  IF index >= Len(c.pos_args)
  THEN [err |-> "CommandSyntaxError", val |-> <<>>, c |-> c]
  ELSE [err |-> "", val |-> c.pos_args[index + 1], c |-> c]

\* Command.get_pos_arg (lines 160-164); indices are 0-based and not negative
get_pos_arg(c, index) ==
  IF index >= Len(c.pos_args)
  THEN [err |-> "CommandSyntaxError", val |-> <<>>, c |-> c]
  ELSE [err |-> "", val |-> c.pos_args[index + 1],
        c |-> [c EXCEPT !.pos_args_accessed = @ \cup {index}]]

\* Command.get_kw_keys (lines 166-167)
get_kw_keys(c) == [i \in 1..Len(c.kw_args) |-> c.kw_args[i][1]]

\* the default of get_kw_arg: CommandSyntaxError (required) or a value
Required == [required |-> TRUE, val |-> <<>>]
Default(v) == [required |-> FALSE, val |-> v]

\* Command.get_kw_arg (lines 169-176)
get_kw_arg(c, kw, default) ==
  IF ~HasKey(c.kw_args, kw)
  THEN (IF default.required
        THEN [err |-> "CommandSyntaxError", val |-> <<>>, c |-> c]
        ELSE [err |-> "", val |-> default.val, c |-> c])
  ELSE [err |-> "", val |-> Lookup(c.kw_args, kw),
        c |-> [c EXCEPT !.kw_args_accessed = @ \cup {kw}]]

\* Command.finalize (lines 178-185): the error it raises, "" when it returns
finalize(c) ==
  LET pos_args_unaccessed == (0..(Len(c.pos_args) - 1)) \ c.pos_args_accessed
      kw_args_unaccessed == Keys(c.kw_args) \ c.kw_args_accessed
  IN IF pos_args_unaccessed /= {} THEN "CommandSyntaxError"
     ELSE IF kw_args_unaccessed /= {} THEN "CommandSyntaxError"
     ELSE ""


(***************************************************************************)
(* SvgTemplate.py: elements, text and lengths                              *)
(*                                                                         *)
(* An element is a record of its tag (namespace and local name), its       *)
(* attributes (a function from attribute names to strings), its text, its  *)
(* tail and the sequence of its children.  Lengths are whole numbers of    *)
(* half pixels, so that the halving of BarcodeFilter and SvgFilter stays    *)
(* exact; the units drawn are the ones with a whole factor.                 *)
(***************************************************************************)
Tag(ns, name) == [ns |-> ns, name |-> name]
Elt(tag, attrib, text, children) ==
  [tag |-> tag, attrib |-> attrib, text |-> text, tail |-> <<>>,
   children |-> children]

\* strip_tag (lines 17-21)
strip_tag(tag) == tag.name

\* elt.get(attr, default)
Get(elt, attr, default) ==
  IF attr \in DOMAIN elt.attrib THEN elt.attrib[attr] ELSE default

TextTags == {"text", "tspan"}
UnsupportedTextTags ==
  {"altGlyph", "altGlyphDef", "altGlyphItem", "glyph", "glyphRef", "textPath",
   "tref"}

\* get_text_contents.process_child (lines 28-38): the pieces appended to
\* contents, and whether NotImplementedError was raised
RECURSIVE process_child(_)
RECURSIVE process_children(_)
process_child(child_elt) ==
  IF strip_tag(child_elt.tag) \in TextTags
  THEN LET sub == process_children(child_elt.children) IN
         [err |-> sub.err, val |-> child_elt.text \o sub.val]
  ELSE IF strip_tag(child_elt.tag) \in UnsupportedTextTags
  THEN [err |-> TRUE, val |-> <<>>]
  ELSE [err |-> FALSE, val |-> <<>>]
process_children(children) ==
  IF children = <<>> THEN [err |-> FALSE, val |-> <<>>]
  ELSE LET first == process_child(Head(children))
           rest == process_children(Tail(children))
       IN [err |-> first.err \/ rest.err, val |-> first.val \o rest.val]

\* get_text_contents (lines 25-41)
get_text_contents(elt) == process_child(elt)

DigitChars == <<"0", "1", "2", "3", "4", "5", "6", "7", "8", "9">>
IsDigit(ch) == \E i \in 1..10 : DigitChars[i] = ch
DigitVal(ch) == (CHOOSE i \in 1..10 : DigitChars[i] = ch) - 1

\* the number of leading digits of s
RECURSIVE DigitPrefix(_)
DigitPrefix(s) ==
  IF s = <<>> \/ ~IsDigit(Head(s)) THEN 0 ELSE 1 + DigitPrefix(Tail(s))

\* float() of a string of digits
RECURSIVE DigitsToInt(_)
DigitsToInt(s) ==
  IF s = <<>> THEN 0
  ELSE DigitsToInt(SubSeq(s, 1, Len(s) - 1)) * 10 + DigitVal(s[Len(s)])

\* str() of a natural number
RECURSIVE IntToDigits(_)
IntToDigits(n) ==
  IF n < 10 THEN <<DigitChars[n + 1]>>
  ELSE IntToDigits(n \div 10) \o <<DigitChars[(n % 10) + 1]>>

\* str() of a float given in half pixels: "12.0", "12.5", "-0.5"
FloatStr(h) ==
  LET a == IF h < 0 THEN 0 - h ELSE h IN
    (IF h < 0 THEN <<"-">> ELSE <<>>) \o IntToDigits(a \div 2)
      \o (IF a % 2 = 0 THEN <<".", "0">> ELSE <<".", "5">>)

\* a value that is not a string: the int 3 that BarcodeFilter passes as the
\* default thickness (line 243)
Int3 == <<"<int 3>">>

\* UNITS_TO_PX (lines 44-50), the units with a whole factor
UnitFactor(units) == IF units = <<"p", "c">> THEN 15 ELSE 90
WholeUnits == {<<"p", "c">>, <<"i", "n">>}

\* units_to_pixels (lines 51-61) on digits followed by a unit: the length in
\* half pixels, or the error raised
units_to_pixels(units_num) ==
  IF units_num = Int3 THEN [err |-> "TypeError", val |-> 0]
  ELSE LET n == DigitPrefix(units_num)
           units == SubSeq(units_num, n + 1, Len(units_num))
       IN IF n = 0 THEN [err |-> "NameError", val |-> 0]
          ELSE IF units = <<>>
          THEN [err |-> "", val |-> 2 * DigitsToInt(SubSeq(units_num, 1, n))]
          ELSE IF units \in WholeUnits
          THEN [err |-> "",
                val |-> 2 * DigitsToInt(SubSeq(units_num, 1, n)) * UnitFactor(units)]
          ELSE [err |-> "AssertionError", val |-> 0]

(***************************************************************************)
(* Code128.code128_widths: the module is not among the sources; it is      *)
(* modelled from the symbology the specification names.  A symbol is three *)
(* bars and three spaces of 11 modules, the stop symbol four bars and      *)
(* three spaces of 13 modules; the sequence is start, data, check, stop.   *)
(***************************************************************************)
Code128Patterns ==
  << <<2, 1, 2, 2, 2, 2>>, <<2, 2, 2, 1, 2, 2>>, <<2, 2, 2, 2, 2, 1>>,
     <<1, 2, 1, 2, 2, 3>> >>
Code128Pattern(v) == Code128Patterns[(v % 4) + 1]
Code128StartB == <<2, 1, 1, 2, 1, 4>>
Code128Stop == <<2, 3, 3, 1, 1, 1, 2>>
Code128Value(ch) == IF IsDigit(ch) THEN 16 + DigitVal(ch) ELSE 33

RECURSIVE Code128Data(_)
Code128Data(val) ==
  IF val = <<>> THEN <<>>
  ELSE Code128Pattern(Code128Value(Head(val))) \o Code128Data(Tail(val))

RECURSIVE Code128Sum(_, _)
Code128Sum(val, i) ==
  IF i > Len(val) THEN 104 ELSE i * Code128Value(val[i]) + Code128Sum(val, i + 1)

code128_widths(val) ==
  Code128StartB \o Code128Data(val)
    \o Code128Pattern(Code128Sum(val, 1) % 103) \o Code128Stop

(***************************************************************************)
(* SvgTemplate.py: BarcodeFilter                                           *)
(***************************************************************************)
\* a missing attribute: elt.get(attr) is None
NoneStr == <<"<None>">>

RECURSIVE SumSeq(_)
SumSeq(q) == IF q = <<>> THEN 0 ELSE Head(q) + SumSeq(Tail(q))

\* what replace() hands back: the error raised ("" when none), whether it
\* returned None, the elements returned, the Command as the filter left it
\* and the rectangle as the filter left it
ReplaceResult(err, none, new_elts, cmd, rect_elt) ==
  [err |-> err, none |-> none, new_elts |-> new_elts, cmd |-> cmd,
   rect_elt |-> rect_elt,
   barcode_width |-> 0, width |-> 0, nwidths |-> 0]

\* lines 268-280: one rect per bar, the spaces skipped; x values in half pixels
RECURSIVE BarElts(_, _, _, _, _, _)
BarElts(barcode_widths, i, curr_x, y_str, height_str, fill) ==
  IF i > Len(barcode_widths) THEN <<>>
  ELSE (IF i % 2 = 1
        THEN <<Elt(Tag("", "rect"),
                   [x |-> FloatStr(curr_x), y |-> y_str,
                    width |-> FloatStr(barcode_widths[i]),
                    height |-> height_str,
                    style |-> <<"s", "t", "r", "o", "k", "e", ":", "n", "o", "n", "e", ";", "f", "i", "l", "l", ":">> \o fill
                                \o <<";", "f", "i", "l", "l", "-", "o", "p", "a", "c", "i", "t", "y", ":", "1">>],
                   <<>>, <<>>)>>
        ELSE <<>>)
       \o BarElts(barcode_widths, i + 1, curr_x + barcode_widths[i], y_str,
                  height_str, fill)

\* line 253 with >= for >
WidthExceededStrict(barcode_width, width) == barcode_width >= width

\* line 253
WidthExceeded(barcode_width, width) == barcode_width > width

\* BarcodeFilter.replace (lines 219-282)
BarcodeReplace(command_text, rect_elt) ==
  IF ~StartsWith(command_text, <<"#", "c", "o", "d", "e", "1", "2", "8">>)
  THEN ReplaceResult("", TRUE, <<>>, FailedCommand(command_text, "unparsed"), rect_elt)
  ELSE LET cmd == Command(command_text) IN
  IF cmd.err /= "" THEN ReplaceResult(cmd.err, FALSE, <<>>, cmd, rect_elt)
  ELSE IF get_num_pos_args(cmd) = 0
  THEN ReplaceResult("", FALSE, <<>>, cmd, rect_elt)
  ELSE LET x == units_to_pixels(Get(rect_elt, "x", NoneStr))
           width == units_to_pixels(Get(rect_elt, "width", NoneStr))
       IN
  IF x.err /= "" THEN ReplaceResult(x.err, FALSE, <<>>, cmd, rect_elt)
  ELSE IF width.err /= "" THEN ReplaceResult(width.err, FALSE, <<>>, cmd, rect_elt)
  ELSE LET y_str == Get(rect_elt, "y", NoneStr)
           height_str == Get(rect_elt, "height", NoneStr)
           alignment == get_kw_arg(cmd, <<"a", "l", "i", "g", "n">>, Default(<<"x", "M", "i", "d">>))
           fill == get_kw_arg(alignment.c, <<"f", "i", "l", "l">>, Default(<<"#", "0", "0", "0", "0", "0", "0">>))
           quiet_arg == get_kw_arg(fill.c, <<"q", "u", "i", "e", "t">>, Default(<<"T", "r", "u", "e">>))
       IN
  IF quiet_arg.val \notin {<<"t", "r", "u", "e">>, <<"T", "r", "u", "e">>, <<"F", "a", "l", "s", "e">>, <<"f", "a", "l", "s", "e">>}
  THEN ReplaceResult("CommandSyntaxError", FALSE, <<>>, quiet_arg.c, rect_elt)
  ELSE LET quiet == quiet_arg.val \in {<<"t", "r", "u", "e">>, <<"T", "r", "u", "e">>}
           thickness_arg == get_kw_arg(quiet_arg.c, <<"t", "h", "i", "c", "k", "n", "e", "s", "s">>, Default(Int3))
           thickness == units_to_pixels(thickness_arg.val)
       IN
  IF thickness.err /= ""
  THEN ReplaceResult(thickness.err, FALSE, <<>>, thickness_arg.c, rect_elt)
  ELSE LET val == get_pos_arg(thickness_arg.c, 0) IN
  IF finalize(val.c) /= ""
  THEN ReplaceResult(finalize(val.c), FALSE, <<>>, val.c, rect_elt)
  ELSE LET widths == code128_widths(val.val)
           \* thickness is in half pixels, and so are the scaled widths
           barcode_widths == [i \in 1..Len(widths) |-> widths[i] * thickness.val]
           barcode_width == SumSeq(barcode_widths)
                              + (IF quiet THEN 20 * thickness.val ELSE 0)
           measured == [ReplaceResult("", FALSE, <<>>, val.c, rect_elt)
                          EXCEPT !.barcode_width = barcode_width,
                                 !.width = width.val,
                                 !.nwidths = Len(barcode_widths)]
       IN
  IF WidthExceeded(barcode_width, width.val)
  THEN [measured EXCEPT !.err = "SvgTemplateException"]
  ELSE IF alignment.val \notin {<<"x", "M", "i", "n">>, <<"x", "M", "i", "d">>, <<"x", "M", "a", "x">>}
  THEN [measured EXCEPT !.err = "UnboundLocalError"]
  ELSE LET aligned_x ==
             IF alignment.val = <<"x", "M", "i", "n">> THEN x.val
             ELSE IF alignment.val = <<"x", "M", "i", "d">>
             THEN x.val + ((width.val - barcode_width) \div 2)
             ELSE x.val + width.val - barcode_width
           curr_x == aligned_x + (IF quiet THEN 10 * thickness.val ELSE 0)
       IN
  IF Len(barcode_widths) % 2 /= 1
  THEN [measured EXCEPT !.err = "AssertionError"]
  ELSE [measured EXCEPT
          !.new_elts = BarElts(barcode_widths, 1, curr_x, y_str, height_str,
                               fill.val)]

(***************************************************************************)
(* SvgTemplate.py: StyleFilter                                             *)
(***************************************************************************)
\* d[key] = val on an OrderedDict: a known key keeps its place
Put(d, key, val) ==
  IF HasKey(d, key)
  THEN [i \in 1..Len(d) |-> IF d[i][1] = key THEN <<key, val>> ELSE d[i]]
  ELSE Append(d, <<key, val>>)

\* elt.set(attr, val)
SetAttr(elt, attr, val) ==
  [elt EXCEPT !.attrib = [a \in (DOMAIN elt.attrib) \cup {attr} |->
                            IF a = attr THEN val ELSE elt.attrib[a]]]

\* lines 296-302: the style attribute into an OrderedDict
RECURSIVE ParseStyle(_, _, _)
ParseStyle(pieces, i, style_dict) ==
  IF i > Len(pieces) THEN [err |-> "", style_dict |-> style_dict]
  ELSE LET kv == Split(pieces[i], ":") IN
    IF Len(kv) /= 2 THEN [err |-> "AssertionError", style_dict |-> <<>>]
    ELSE IF HasKey(style_dict, kv[1])
    THEN [err |-> "SvgTemplateException", style_dict |-> <<>>]
    ELSE ParseStyle(pieces, i + 1, Append(style_dict, <<kv[1], kv[2]>>))

\* lines 304-305: every keyword argument of the command onto the dict
RECURSIVE OverlayKw(_, _, _, _)
OverlayKw(kw_keys, i, cmd, style_dict) ==
  IF i > Len(kw_keys) THEN [cmd |-> cmd, style_dict |-> style_dict]
  ELSE LET arg == get_kw_arg(cmd, kw_keys[i], Required) IN
         OverlayKw(kw_keys, i + 1, arg.c, Put(style_dict, kw_keys[i], arg.val))

\* line 307
StyleElts(style_dict) ==
  [i \in 1..Len(style_dict) |-> style_dict[i][1] \o <<":">> \o style_dict[i][2]]

\* StyleFilter.replace (lines 291-310)
StyleReplace(command_text, rect_elt) ==
  IF ~StartsWith(command_text, <<"#", "s", "t", "y", "l", "e">>)
  THEN ReplaceResult("", TRUE, <<>>, FailedCommand(command_text, "unparsed"), rect_elt)
  ELSE LET cmd == Command(command_text) IN
  IF cmd.err /= "" THEN ReplaceResult(cmd.err, FALSE, <<>>, cmd, rect_elt)
  ELSE LET parsed == ParseStyle(Split(Get(rect_elt, "style", <<>>), ";"), 1, <<>>) IN
  IF parsed.err /= "" THEN ReplaceResult(parsed.err, FALSE, <<>>, cmd, rect_elt)
  ELSE LET laid == OverlayKw(get_kw_keys(cmd), 1, cmd, parsed.style_dict)
           styled == SetAttr(rect_elt, "style", Join(StyleElts(laid.style_dict), <<";">>))
       IN ReplaceResult("", FALSE, <<styled>>, laid.cmd, styled)

(***************************************************************************)
(* SvgTemplate.py: SvgFilter                                               *)
(***************************************************************************)
\* "%f" of a float given in half pixels
FmtF(h) ==
  LET a == IF h < 0 THEN 0 - h ELSE h IN
    (IF h < 0 THEN <<"-">> ELSE <<>>) \o IntToDigits(a \div 2)
      \o (IF a % 2 = 0 THEN <<".", "0", "0", "0", "0", "0", "0">> ELSE <<".", "5", "0", "0", "0", "0", "0">>)

\* the files beside the template that ET.parse (line 333) finds: f is a
\* 4 x 2 document, g one whose viewBox does not start at the origin
SubDocNames == {<<"f">>, <<"g">>}
SubDoc(name) ==
  Elt(Tag("svg", "svg"),
      [width |-> <<"4">>, height |-> <<"2">>,
       viewBox |-> IF name = <<"f">> THEN <<"0", " ", "0", " ", "4", " ", "2">> ELSE <<"1", " ", "0", " ", "4", " ", "2">>],
      <<>>,
      <<Elt(Tag("svg", "path"), [d |-> name], <<>>, <<>>)>>)

\* lines 332-351: one wrapper group per positional argument
RECURSIVE SvgOutputs(_, _, _, _)
SvgOutputs(cmd, i, rect_center_x, rect_center_y) ==
  IF i >= get_num_pos_args(cmd) THEN [err |-> "", cmd |-> cmd, outputs |-> <<>>]
  ELSE LET arg == get_pos_arg(cmd, i) IN
  IF arg.val \notin SubDocNames
  THEN [err |-> "FileNotFoundError", cmd |-> arg.c, outputs |-> <<>>]
  ELSE LET sub_etree == SubDoc(arg.val)
           sub_width == units_to_pixels(Get(sub_etree, "width", NoneStr))
           sub_height == units_to_pixels(Get(sub_etree, "height", NoneStr))
           sub_viewbox == Split(Get(sub_etree, "viewBox", NoneStr), " ")
           vb == [j \in 1..Len(sub_viewbox) |-> 2 * DigitsToInt(sub_viewbox[j])]
       IN
  IF vb[1] /= 0 \/ vb[2] /= 0 \/ vb[3] /= sub_width.val \/ vb[4] /= sub_height.val
  THEN [err |-> "AssertionError", cmd |-> arg.c, outputs |-> <<>>]
  ELSE LET delta_x == rect_center_x - (sub_width.val \div 2)
           delta_y == rect_center_y - (sub_height.val \div 2)
           new_group ==
             Elt(Tag("svg", "g"),
                 [transform |-> <<"t", "r", "a", "n", "s", "l", "a", "t", "e", "(">> \o FmtF(delta_x) \o <<" ", ",">>
                                  \o FmtF(delta_y) \o <<")">>],
                 <<>>, sub_etree.children)
           rest == SvgOutputs(arg.c, i + 1, rect_center_x, rect_center_y)
       IN [err |-> rest.err, cmd |-> rest.cmd,
           outputs |-> IF rest.err = "" THEN <<new_group>> \o rest.outputs ELSE <<>>]

\* SvgFilter.replace (lines 319-353)
SvgReplace(command_text, rect_elt) ==
  IF ~StartsWith(command_text, <<"#", "s", "v", "g">>)
  THEN ReplaceResult("", TRUE, <<>>, FailedCommand(command_text, "unparsed"), rect_elt)
  ELSE LET cmd == Command(command_text) IN
  IF cmd.err /= "" THEN ReplaceResult(cmd.err, FALSE, <<>>, cmd, rect_elt)
  ELSE LET x == units_to_pixels(Get(rect_elt, "x", NoneStr))
           width == units_to_pixels(Get(rect_elt, "width", NoneStr))
           y == units_to_pixels(Get(rect_elt, "y", NoneStr))
           height == units_to_pixels(Get(rect_elt, "height", NoneStr))
       IN
  IF x.err /= "" THEN ReplaceResult(x.err, FALSE, <<>>, cmd, rect_elt)
  ELSE IF width.err /= "" THEN ReplaceResult(width.err, FALSE, <<>>, cmd, rect_elt)
  ELSE IF y.err /= "" THEN ReplaceResult(y.err, FALSE, <<>>, cmd, rect_elt)
  ELSE IF height.err /= "" THEN ReplaceResult(height.err, FALSE, <<>>, cmd, rect_elt)
  ELSE LET out == SvgOutputs(cmd, 0, x.val + (width.val \div 2),
                             y.val + (height.val \div 2))
       IN ReplaceResult(out.err, FALSE, out.outputs, out.cmd, rect_elt)

(***************************************************************************)
(* SvgTemplate.py: AreaFilter                                              *)
(***************************************************************************)
AreaFilters == {"BarcodeFilter", "StyleFilter", "SvgFilter"}

\* the replace() of the subclass
Replace(filter, command_text, rect_elt) ==
  IF filter = "BarcodeFilter" THEN BarcodeReplace(command_text, rect_elt)
  ELSE IF filter = "StyleFilter" THEN StyleReplace(command_text, rect_elt)
  ELSE SvgReplace(command_text, rect_elt)

\* what apply() leaves: the error raised, the element afterwards, whether
\* replace() was called and what it handed back
ApplyResult(err, elt, called, ret) ==
  [err |-> err, elt |-> elt, called |-> called, ret |-> ret]

NoReplace == ReplaceResult("", TRUE, <<>>, FailedCommand(<<>>, "uncalled"),
                           Elt(Tag("", ""), <<>>, <<>>, <<>>))

\* lines 100-107: the places of the rectangle and of the text, 0 when the two
\* children are not one of each
RectIndex(elt) ==
  IF strip_tag(elt.children[1].tag) = "rect" /\ strip_tag(elt.children[2].tag) = "text"
  THEN 1
  ELSE IF strip_tag(elt.children[1].tag) = "text"
            /\ strip_tag(elt.children[2].tag) = "rect"
  THEN 2 ELSE 0

\* an apply() that keeps the children it should remove
AreaOutcomeKeeping(elt, new_elts) ==
  IF new_elts.err /= "" THEN ApplyResult(new_elts.err, elt, TRUE, new_elts)
  ELSE IF new_elts.none THEN ApplyResult("", elt, TRUE, new_elts)
  ELSE ApplyResult("", [elt EXCEPT !.children = @ \o new_elts.new_elts],
                   TRUE, new_elts)

\* lines 109-114: what apply() does with what replace() handed back
AreaOutcome(elt, new_elts) ==
  IF new_elts.err /= "" THEN ApplyResult(new_elts.err, elt, TRUE, new_elts)
  ELSE IF new_elts.none THEN ApplyResult("", elt, TRUE, new_elts)
  ELSE ApplyResult("", [elt EXCEPT !.children = new_elts.new_elts],
                   TRUE, new_elts)

\* line 109: replace() on the text of text_elt, which get_text_contents
\* left as text, and on rect_elt
AreaReplace(filter, elt, rect_elt, text) ==
  IF text.err THEN ApplyResult("NotImplementedError", elt, FALSE, NoReplace)
  ELSE AreaOutcome(elt, Replace(filter, text.val, rect_elt))

\* AreaFilter.apply (lines 96-114)
AreaApply(filter, elt) ==
  IF strip_tag(elt.tag) /= "g" \/ Len(elt.children) /= 2
  THEN ApplyResult("", elt, FALSE, NoReplace)
  ELSE IF RectIndex(elt) = 0 THEN ApplyResult("", elt, FALSE, NoReplace)
  ELSE AreaReplace(filter, elt, elt.children[RectIndex(elt)],
                   get_text_contents(elt.children[3 - RectIndex(elt)]))

(***************************************************************************)
(* SvgTemplate.py: ShowFilter                                              *)
(***************************************************************************)
\* is subelt a #showeq command text (line 197); NotImplementedError of
\* get_text_contents is reported by ShowScan
IsShowCmd(subelt) ==
  /\ strip_tag(subelt.tag) = "text"
  /\ StartsWith(get_text_contents(subelt).val, <<"#", "s", "h", "o", "w", "e", "q">>)

\* lines 194-200: the loop over the children; cmd_idx is 0 while cmd_text is None
RECURSIVE ShowScan(_, _, _)
ShowScan(elt, i, cmd_idx) ==
  IF i > Len(elt.children) THEN [err |-> "", cmd_idx |-> cmd_idx]
  ELSE LET subelt == elt.children[i] IN
    IF strip_tag(subelt.tag) = "text" /\ get_text_contents(subelt).err
    THEN [err |-> "NotImplementedError", cmd_idx |-> 0]
    ELSE IF IsShowCmd(subelt)
    THEN (IF cmd_idx /= 0 THEN [err |-> "AssertionError", cmd_idx |-> 0]
          ELSE ShowScan(elt, i + 1, i))
    ELSE ShowScan(elt, i + 1, cmd_idx)

\* seq without its i-th element
RemoveAt(seq, i) == SubSeq(seq, 1, i - 1) \o SubSeq(seq, i + 1, Len(seq))

\* line 209
RECURSIVE AllowList(_, _)
AllowList(cmd, i) ==
  IF i >= get_num_pos_args(cmd) THEN [cmd |-> cmd, str_in |-> <<>>]
  ELSE LET arg == get_pos_arg(cmd, i)
           rest == AllowList(arg.c, i + 1)
       IN [cmd |-> rest.cmd, str_in |-> <<arg.val>> \o rest.str_in]

\* Element.clear()
Clear(elt) ==
  [elt EXCEPT !.attrib = [a \in {} |-> <<>>], !.text = <<>>, !.tail = <<>>,
              !.children = <<>>]

ShowResult(err, elt, cmd_idx, cmd) ==
  [err |-> err, elt |-> elt, cmd_idx |-> cmd_idx, cmd |-> cmd]

\* a membership test that looks at the first allowed value only
InAllowFirst(str_check, str_in) == str_in /= <<>> /\ str_in[1] = str_check

\* line 211: str_check in str_in
InAllow(str_check, str_in) == \E i \in 1..Len(str_in) : str_in[i] = str_check

\* ShowFilter.apply (lines 189-212)
ShowApply(elt) ==
  LET uncalled == FailedCommand(<<>>, "uncalled") IN
  IF strip_tag(elt.tag) /= "g" THEN ShowResult("", elt, 0, uncalled)
  ELSE LET scan == ShowScan(elt, 1, 0) IN
  IF scan.err /= "" THEN ShowResult(scan.err, elt, 0, uncalled)
  ELSE IF scan.cmd_idx = 0 THEN ShowResult("", elt, 0, uncalled)
  ELSE LET cmd_text == get_text_contents(elt.children[scan.cmd_idx]).val
           removed == [elt EXCEPT !.children = RemoveAt(@, scan.cmd_idx)]
           cmd == Command(cmd_text)
       IN
  IF cmd.err /= "" THEN ShowResult(cmd.err, removed, scan.cmd_idx, cmd)
  ELSE LET str_check == get_pos_arg(cmd, 0) IN
  IF str_check.err /= "" THEN ShowResult(str_check.err, removed, scan.cmd_idx, cmd)
  ELSE LET allow == AllowList(str_check.c, 1) IN
         ShowResult("",
                    IF InAllow(str_check.val, allow.str_in) THEN removed
                    ELSE Clear(removed),
                    scan.cmd_idx, allow.cmd)

(***************************************************************************)
(* SvgTemplate.py: TextFilter                                              *)
(***************************************************************************)
TextFilterTags == {"text", "tspan", "flowRoot", "flowPara", "flowSpan"}

\* the characters [^(^)] does not match
KeyStops == {"(", "^", ")"}

\* the length of the longest run of [^(^)] that starts at s[j]
RECURSIVE KeyRun(_, _)
KeyRun(s, j) ==
  IF j > Len(s) \/ s[j] \in KeyStops THEN 0 ELSE 1 + KeyRun(s, j + 1)

\* does %\(([^(^)]+)\) match at s[i]
MatchAt(s, i) ==
  /\ i + 3 <= Len(s)
  /\ s[i] = "%" /\ s[i + 1] = "("
  /\ KeyRun(s, i + 2) >= 1
  /\ i + 2 + KeyRun(s, i + 2) <= Len(s)
  /\ s[i + 2 + KeyRun(s, i + 2)] = ")"

\* re.sub (line 80) with parsed (lines 75-79): matches are taken left to
\* right and the replacement is not scanned again; the first missing key
\* raises.  done is the output for s before place i.
RECURSIVE SubFrom(_, _, _, _)
SubFrom(s, i, data_dict, done) ==
  IF i > Len(s) THEN [err |-> "", key |-> <<>>, val |-> done]
  ELSE IF MatchAt(s, i)
  THEN LET key == SubSeq(s, i + 2, i + 1 + KeyRun(s, i + 2)) IN
         IF ~HasKey(data_dict, key)
         THEN [err |-> "AssertionError", key |-> key, val |-> <<>>]
         ELSE SubFrom(s, i + 3 + KeyRun(s, i + 2), data_dict,
                      done \o Lookup(data_dict, key))
  ELSE SubFrom(s, i + 1, data_dict, Append(done, s[i]))

\* TextFilter.apply (lines 73-80): the error raised, the key it names and the
\* element afterwards
TextApply(elt, data_dict) ==
  IF strip_tag(elt.tag) \in TextFilterTags /\ elt.text /= <<>>
  THEN LET sub == SubFrom(elt.text, 1, data_dict, <<>>) IN
         IF sub.err /= "" THEN [err |-> sub.err, key |-> sub.key, elt |-> elt]
         ELSE [err |-> "", key |-> <<>>, elt |-> [elt EXCEPT !.text = sub.val]]
  ELSE [err |-> "", key |-> <<>>, elt |-> elt]

(***************************************************************************)
(* A Command in the hands of a caller: any sequence of accessor calls and  *)
(* finalize() calls on one parsed command.                                 *)
(***************************************************************************)
\* a command carries at most MaxArgs argument tokens
MaxArgs == 3

CmdTokens ==
  { <<"a">>, <<"b">>, <<"k", "=", "v">>, <<"j", "=", "w">>, <<"k", "=", "x">>,
    <<"a", "=", "b", "=", "c">>, <<>> }

CmdStrings ==
  {Join(<<(<<"#", "c">>)>> \o toks, <<" ">>) : toks \in SeqsUpTo(CmdTokens, MaxArgs)}
    \cup {<<"c">>, <<" ">>}

KwNames == {<<"k">>, <<"j">>, <<"z">>}

CmdIdle ==
  /\ cmd_obj = FailedCommand(<<>>, "idle")
  /\ fin = "none" /\ last_err = "" /\ returned_pos = {} /\ returned_kw = {}

CmdInit ==
  /\ cmd_obj \in {Command(str) : str \in CmdStrings}
  /\ fin = "none" /\ last_err = "" /\ returned_pos = {} /\ returned_kw = {}

GetPosArg(index) ==
  /\ cmd_obj.err = ""
  /\ LET r == get_pos_arg(cmd_obj, index) IN
       /\ cmd_obj' = r.c
       /\ last_err' = r.err
       /\ returned_pos' = (IF r.err = "" THEN returned_pos \cup {index}
                           ELSE returned_pos)
  /\ fin' = "none"
  /\ UNCHANGED returned_kw
  /\ UNCHANGED nonCmdVars

GetKwArg(kw, default) ==
  /\ cmd_obj.err = ""
  /\ LET r == get_kw_arg(cmd_obj, kw, default) IN
       /\ cmd_obj' = r.c
       /\ last_err' = r.err
       /\ returned_kw' = (IF r.err = "" /\ HasKey(cmd_obj.kw_args, kw)
                          THEN returned_kw \cup {kw} ELSE returned_kw)
  /\ fin' = "none"
  /\ UNCHANGED returned_pos
  /\ UNCHANGED nonCmdVars

Finalize ==
  /\ cmd_obj.err = ""
  /\ fin' = (IF finalize(cmd_obj) = "" THEN "ok" ELSE "error")
  /\ UNCHANGED <<cmd_obj, last_err, returned_pos, returned_kw>>
  /\ UNCHANGED nonCmdVars

CmdNext ==
  \/ \E index \in 0..MaxArgs : GetPosArg(index)
  \/ \E kw \in KwNames, default \in {Required, Default(<<"d">>)} :
       GetKwArg(kw, default)
  \/ Finalize

MaxPayload == 2
\* a #showeq command carries at most MaxShowArgs positional arguments
MaxShowArgs == 3

NoAttrib == [a \in {} |-> <<>>]
SvgElt(name, attrib, text, children) == Elt(Tag("svg", name), attrib, text, children)

\* a rectangle of the given width and style
RectElt(width, style) ==
  SvgElt("rect", [x |-> <<"8">>, y |-> <<"2">>, width |-> width,
                  height |-> <<"5">>, style |-> style], <<>>, <<>>)
PlainRect == RectElt(<<"5", "0", "0">>, <<"f", "i", "l", "l", ":", "n", "o", "n", "e", ";", "s", "t", "r", "o", "k", "e", ":", "b", "l", "u", "e">>)

\* a text element holding str itself, or in a tspan as Inkscape writes it
TextElt(str) == SvgElt("text", NoAttrib, str, <<>>)
SpanText(str) ==
  SvgElt("text", NoAttrib, <<>>, <<SvgElt("tspan", NoAttrib, str, <<>>)>>)

GroupElt(children) ==
  SvgElt("g", [transform |-> <<"m", "a", "t", "r", "i", "x", "(", "1", ",", "0", ",", "0", ",", "1", ",", "3", ",", "4", ")">>], <<>>, children)

\* ---- commands for the AreaFilter family ----
AreaCmdTexts ==
  { <<"h", "e", "l", "l", "o">>, <<"#", "c", "o", "d", "e", "1", "2", "8">>, <<"#", "c", "o", "d", "e", "1", "2", "8", " ", "k", "=", "v">>, <<"#", "c", "o", "d", "e", "1", "2", "8", " ", "1">>,
    <<"#", "c", "o", "d", "e", "1", "2", "8", " ", "1", " ", "t", "h", "i", "c", "k", "n", "e", "s", "s", "=", "1">>, <<"#", "c", "o", "d", "e", "1", "2", "8", " ", "1", "2", " ", "t", "h", "i", "c", "k", "n", "e", "s", "s", "=", "2", " ", "f", "i", "l", "l", "=", "r", "e", "d">>,
    <<"#", "c", "o", "d", "e", "1", "2", "8", " ", "1", " ", "2", " ", "t", "h", "i", "c", "k", "n", "e", "s", "s", "=", "1">>, <<"#", "c", "o", "d", "e", "1", "2", "8", " ", "1", " ", "t", "h", "i", "c", "k", "n", "e", "s", "s", "=", "1", " ", "t", "h", "i", "c", "k", "n", "e", "s", "=", "2">>,
    <<"#", "c", "o", "d", "e", "1", "2", "8", " ", "1", " ", "t", "h", "i", "c", "k", "n", "e", "s", "s", "=", "1", " ", "f", "i", "l", "l", "=", "a", " ", "f", "i", "l", "l", "=", "b">>,
    <<"#", "s", "t", "y", "l", "e">>, <<"#", "s", "t", "y", "l", "e", " ", "f", "i", "l", "l", "=", "r", "e", "d">>, <<"#", "s", "t", "y", "l", "e", " ", "f", "i", "l", "l", "=", "r", "e", "d", " ", "s", "t", "r", "o", "k", "e", "=", "n", "o", "n", "e">>,
    <<"#", "s", "t", "y", "l", "e", " ", "a", " ", "f", "i", "l", "l", "=", "r", "e", "d">>, <<"#", "s", "t", "y", "l", "e", " ", "w", "i", "d", "t", "h", "=", "2", " ", "a", "=", "b", "=", "c">>,
    <<"#", "s", "v", "g">>, <<"#", "s", "v", "g", " ", "f">>, <<"#", "s", "v", "g", " ", "f", " ", "f">>, <<"#", "s", "v", "g", " ", "g">>, <<"#", "s", "v", "g", " ", "h">>, <<"#", "s", "v", "g", " ", "f", " ", "k", "=", "v">> }

AreaElts ==
  UNION {
    { GroupElt(<<PlainRect, TextElt(t)>>), GroupElt(<<TextElt(t), PlainRect>>),
      GroupElt(<<PlainRect, SpanText(t)>>),
      GroupElt(<<PlainRect, TextElt(t), PlainRect>>),
      GroupElt(<<TextElt(t)>>), GroupElt(<<TextElt(t), TextElt(t)>>),
      GroupElt(<<PlainRect, SvgElt("flowRoot", NoAttrib, t, <<>>)>>),
      GroupElt(<<PlainRect,
                 SvgElt("text", NoAttrib, t,
                        <<SvgElt("textPath", NoAttrib, <<>>, <<>>)>>)>>),
      SvgElt("svg", NoAttrib, <<>>, <<PlainRect, TextElt(t)>>),
      TextElt(t) } : t \in AreaCmdTexts }

\* ---- barcodes of every payload, thickness, quiet zone and alignment ----
Payloads == SeqsUpTo({"1", "2"}, MaxPayload) \ {<<>>}
ThicknessArgs == {<<>>, <<" ", "t", "h", "i", "c", "k", "n", "e", "s", "s", "=", "1">>, <<" ", "t", "h", "i", "c", "k", "n", "e", "s", "s", "=", "2">>}
QuietArgs == {<<>>, <<" ", "q", "u", "i", "e", "t", "=", "t", "r", "u", "e">>, <<" ", "q", "u", "i", "e", "t", "=", "F", "a", "l", "s", "e">>, <<" ", "q", "u", "i", "e", "t", "=", "n", "o">>}
AlignArgs == {<<>>, <<" ", "a", "l", "i", "g", "n", "=", "x", "M", "i", "n">>, <<" ", "a", "l", "i", "g", "n", "=", "x", "M", "a", "x">>, <<" ", "a", "l", "i", "g", "n", "=", "l", "e", "f", "t">>}
RectWidths ==
  { <<"1", "0">>, <<"4", "5">>, <<"4", "6">>, <<"4", "7">>, <<"6", "5">>, <<"6", "6">>, <<"6", "7">>, <<"9", "2">>, <<"5", "0", "0">>,
    <<"1", "i", "n">>, <<"w", "i", "d", "e">> }

BarcodeCmdTexts ==
  { <<"#", "c", "o", "d", "e", "1", "2", "8", " ">> \o p \o th \o q \o al :
      p \in Payloads, th \in ThicknessArgs, q \in QuietArgs, al \in AlignArgs }

BarcodeElts ==
  { GroupElt(<<RectElt(w, <<"f", "i", "l", "l", ":", "n", "o", "n", "e">>), TextElt(t)>>) :
      w \in RectWidths, t \in BarcodeCmdTexts }

\* ---- groups with #showeq commands ----
ShowArgs == SeqsUpTo({<<"A">>, <<"B">>}, MaxShowArgs)
ShowCmdTexts ==
  { Join(<<<<"#", "s", "h", "o", "w", "e", "q">>>> \o args, <<" ">>) : args \in ShowArgs }
    \cup { <<"#", "s", "h", "o", "w", "e", "q", " ", "A", " ", "k", "=", "v", " ", "A">>, <<"#", "s", "h", "o", "w", "e", "q", " ", " ", "B", " ", " ", "B">>, <<"#", "s", "h", "o", "w", "e", "q", " ", "A", " ", "a", "=", "b", "=", "c">>,
           <<"#", "s", "h", "o", "w", "e", "q", "s", " ", "A", " ", "A">> }
Hello == TextElt(<<"h", "e", "l", "l", "o">>)

ShowElts ==
  UNION {
    { GroupElt(<<TextElt(t), PlainRect>>), GroupElt(<<PlainRect, TextElt(t)>>),
      GroupElt(<<PlainRect, Hello, SpanText(t), GroupElt(<<Hello>>)>>),
      GroupElt(<<TextElt(t)>>),
      GroupElt(<<TextElt(t), PlainRect, TextElt(t)>>),
      GroupElt(<<PlainRect, GroupElt(<<TextElt(t)>>)>>),
      GroupElt(<<PlainRect, SvgElt("tspan", NoAttrib, t, <<>>)>>),
      SvgElt("svg", NoAttrib, <<>>, <<TextElt(t), PlainRect>>) } :
    t \in ShowCmdTexts }
    \cup { GroupElt(<<PlainRect, Hello>>), GroupElt(<<>>),
           GroupElt(<<TextElt(<<"#", "s", "h", "o", "w", "e", "q", " ", "A", " ", "A">>), TextElt(<<"#", "s", "h", "o", "w", "e", "q", " ", "B", " ", "B">>)>>) }

NoResult == [err |-> "", elt |-> GroupElt(<<>>)]

FilterIdle ==
  /\ fpc = "idle" /\ filt = "" /\ elt0 = GroupElt(<<>>) /\ res = NoResult

FilterInit ==
  /\ fpc = "ready" /\ filt = ""
  /\ elt0 \in AreaElts \cup BarcodeElts \cup ShowElts
  /\ res = NoResult

\* generate() calls filter_obj.apply(self, elt, data_dict) of an AreaFilter
ApplyArea(filter) ==
  /\ fpc = "ready"
  /\ fpc' = "applied" /\ filt' = filter
  /\ res' = AreaApply(filter, elt0)
  /\ UNCHANGED elt0
  /\ UNCHANGED nonFilterVars

\* generate() calls the apply() of the ShowFilter
ApplyShow ==
  /\ fpc = "ready"
  /\ fpc' = "applied" /\ filt' = "ShowFilter"
  /\ res' = ShowApply(elt0)
  /\ UNCHANGED elt0
  /\ UNCHANGED nonFilterVars

FilterNext ==
  \/ \E filter \in AreaFilters : ApplyArea(filter)
  \/ ApplyShow

\* the command the filter parsed has an argument the filter did not read
Unread(c) == c.err = "" /\ finalize(c) /= ""

(***************************************************************************)
(* C3: whenever a filter parses a command that carries a positional or a   *)
(* keyword argument the filter does not read, the call fails.               *)
(***************************************************************************)
C3_UnusedArgsFail ==
  fpc = "applied" =>
    /\ (filt \in AreaFilters /\ res.called /\ ~res.ret.none /\ Unread(res.ret.cmd))
         => res.err /= ""
    /\ (filt = "ShowFilter" /\ res.cmd_idx /= 0 /\ Unread(res.cmd))
         => res.err /= ""

\* a group of exactly two children, one rect and one text, in either order
IsAreaGroup(e) ==
  /\ strip_tag(e.tag) = "g" /\ Len(e.children) = 2
  /\ {strip_tag(e.children[1].tag), strip_tag(e.children[2].tag)} = {"rect", "text"}

Swap(e) == [e EXCEPT !.children = <<@[2], @[1]>>]

RectChildOf(e) ==
  IF strip_tag(e.children[1].tag) = "rect" THEN e.children[1] ELSE e.children[2]

TextChildOf(e) ==
  IF strip_tag(e.children[1].tag) = "text" THEN e.children[1] ELSE e.children[2]

(***************************************************************************)
(* C5: AreaFilter.apply changes an element only if it is a group of        *)
(* exactly two children, one rect and one text; when replace() returns     *)
(* None the group is unchanged; when it returns a sequence, empty or not,   *)
(* the children are exactly the returned elements in order, the text child  *)
(* is gone and the group's tag, attributes and text are unchanged; the      *)
(* outcome is the same for [rect, text] and [text, rect].                   *)
(***************************************************************************)
C5_AreaProtocol ==
  (fpc = "applied" /\ filt \in AreaFilters) =>
    /\ (res.elt /= elt0 \/ res.called) => IsAreaGroup(elt0)
    /\ (res.called /\ res.err = "" /\ res.ret.none) => res.elt = elt0
    /\ (res.called /\ res.err = "" /\ ~res.ret.none) =>
         /\ res.elt = [elt0 EXCEPT !.children = res.ret.new_elts]
         /\ res.elt.children = res.ret.new_elts
         /\ res.elt.attrib = elt0.attrib
         /\ \A i \in 1..Len(res.elt.children) :
              strip_tag(res.elt.children[i].tag) /= "text"
    /\ IsAreaGroup(elt0) =>
         LET sw == AreaApply(filt, Swap(elt0)) IN
           /\ sw.err = res.err /\ sw.called = res.called /\ sw.ret = res.ret
           /\ (res.called /\ res.err = "" /\ ~res.ret.none) => sw.elt = res.elt

\* BarcodeFilter has emptied a [text, rect] group whose command has no payload
C5_Witness ==
  /\ fpc = "applied" /\ filt = "BarcodeFilter"
  /\ elt0 = GroupElt(<<TextElt(<<"#", "c", "o", "d", "e", "1", "2", "8">>), PlainRect>>)
  /\ res.called /\ res.err = "" /\ ~res.ret.none
  /\ res.elt.children = <<>> /\ res.elt.attrib = elt0.attrib

\* the places of the #showeq command texts among the children of e
ShowCmdIdxs(e) ==
  {i \in 1..Len(e.children) :
     /\ strip_tag(e.children[i].tag) = "text"
     /\ StartsWith(get_text_contents(e.children[i]).val, <<"#", "s", "h", "o", "w", "e", "q">>)}

\* a text child of e has a descendant get_text_contents does not support
UnsupportedText(e) ==
  \E i \in 1..Len(e.children) :
    strip_tag(e.children[i].tag) = "text" /\ get_text_contents(e.children[i]).err

\* the positional arguments a command text carries
PosTokens(text) ==
  LET toks == NonEmpty(Split(text, " ")) IN
    SelectSeq(Tail(toks), LAMBDA tok : ~Contains(tok, "="))

(***************************************************************************)
(* C6: ShowFilter on a group.  With no #showeq text child the group is     *)
(* unchanged; with more than one the call fails; with exactly one the       *)
(* command text is removed in every case, and when the command is read      *)
(* without error the other children stay, same elements in the same order,  *)
(* if and only if positional argument 0 equals one of the arguments 1..n,   *)
(* and otherwise the group is cleared of all content.                       *)
(***************************************************************************)
C6_ShowRule ==
  (fpc = "applied" /\ filt = "ShowFilter" /\ strip_tag(elt0.tag) = "g") =>
    LET idxs == ShowCmdIdxs(elt0) IN
      /\ idxs = {} => res.elt = elt0
      /\ UnsupportedText(elt0) => (res.err /= "" /\ res.elt = elt0)
      /\ (idxs = {} /\ ~UnsupportedText(elt0)) => res.err = ""
      /\ (Cardinality(idxs) > 1 /\ ~UnsupportedText(elt0))
           => (res.err = "AssertionError" /\ res.elt = elt0)
      /\ (Cardinality(idxs) = 1 /\ ~UnsupportedText(elt0)) =>
           LET i == CHOOSE j \in idxs : TRUE
               text == get_text_contents(elt0.children[i]).val
               pos == PosTokens(text)
               kept == [elt0 EXCEPT !.children = RemoveAt(@, i)]
           IN /\ res.err /= "" => res.elt = kept
              /\ res.err = "" <=> (Command(text).err = "" /\ Len(pos) >= 1)
              /\ res.err = "" =>
                   res.elt = (IF \E j \in 2..Len(pos) : pos[j] = pos[1]
                              THEN kept ELSE Clear(elt0))

\* "#showeq A B A" has kept the rectangle beside it
C6_Witness ==
  /\ fpc = "applied" /\ filt = "ShowFilter"
  /\ elt0 = GroupElt(<<PlainRect, TextElt(<<"#", "s", "h", "o", "w", "e", "q", " ", "A", " ", "B", " ", "A">>)>>)
  /\ res.err = "" /\ res.elt = GroupElt(<<PlainRect>>)

\* the call reached the width check of BarcodeFilter (line 253)
Measured ==
  fpc = "applied" /\ filt = "BarcodeFilter" /\ res.called /\ res.ret.nwidths > 0

\* the total width, in half pixels, of the barcode a command asks for: the
\* scaled bar and space widths plus 20 x thickness when quiet is true
TotalWidth(text) ==
  LET c == Command(text)
      th == units_to_pixels(Lookup(c.kw_args, <<"t", "h", "i", "c", "k", "n", "e", "s", "s">>)).val
      quiet == ~HasKey(c.kw_args, <<"q", "u", "i", "e", "t">>)
                 \/ Lookup(c.kw_args, <<"q", "u", "i", "e", "t">>) \in {<<"t", "r", "u", "e">>, <<"T", "r", "u", "e">>}
  IN SumSeq(code128_widths(c.pos_args[1])) * th + (IF quiet THEN 20 * th ELSE 0)

MaxCalls == 3

\* line 360
SVG_ELEMENTS == {"g"}

\* lines 372-374: the places of the children whose tag is on the list
RECURSIVE TemplateIndices(_, _)
TemplateIndices(root, i) ==
  IF i > Len(root.children) THEN <<>>
  ELSE (IF strip_tag(root.children[i].tag) \in SVG_ELEMENTS THEN <<i>> ELSE <<>>)
         \o TemplateIndices(root, i + 1)

\* lines 376-377: root.remove(template_elt) for the collected children in
\* turn; remove() finds the child by identity, that is the child whose
\* place was idxs[k] before the k - 1 removals in front of it
RECURSIVE RemoveAll(_, _, _)
RemoveAll(children, idxs, k) ==
  IF k > Len(idxs) THEN children
  ELSE RemoveAll(RemoveAt(children, idxs[k] - (k - 1)), idxs, k + 1)

\* SvgTemplate.__init__ (lines 366-377)
Construct(root) ==
  LET idxs == TemplateIndices(root, 1) IN
    [base |-> [root EXCEPT !.children = RemoveAll(@, idxs, 1)],
     template_elts |-> [k \in 1..Len(idxs) |-> root.children[idxs[k]]]]

\* copy.deepcopy of the trees behind refs: new objects with equal contents
DeepCopy(h, refs) ==
  [heap |-> h \o [k \in 1..Len(refs) |-> h[refs[k]]],
   refs |-> [k \in 1..Len(refs) |-> Len(h) + k]]

\* a clone_base() that hands out the stored tree itself
clone_base_shared(h, base) == [heap |-> h, ref |-> base]

\* clone_base (lines 380-381)
clone_base(h, base) ==
  LET c == DeepCopy(h, <<base>>) IN [heap |-> c.heap, ref |-> c.refs[1]]

\* the element at path, a sequence of child positions, below elt
RECURSIVE NodeAt(_, _)
NodeAt(elt, path) ==
  IF path = <<>> THEN elt ELSE NodeAt(elt.children[Head(path)], Tail(path))

\* elt with the element at path exchanged for new
RECURSIVE ReplaceAt(_, _, _)
ReplaceAt(elt, path, new) ==
  IF path = <<>> THEN new
  ELSE [elt EXCEPT !.children[Head(path)] = ReplaceAt(@, Tail(path), new)]

\* the id attributes of elt and of everything below it
RECURSIVE Ids(_)
RECURSIVE IdsOf(_)
Ids(elt) ==
  (IF "id" \in DOMAIN elt.attrib THEN {elt.attrib["id"]} ELSE {})
    \cup IdsOf(elt.children)
IdsOf(children) ==
  IF children = <<>> THEN {} ELSE Ids(Head(children)) \cup IdsOf(Tail(children))

\* the paths of elt and of everything below it, in document order
RECURSIVE Preorder(_, _)
RECURSIVE PreorderFrom(_, _, _)
Preorder(elt, path) == <<path>> \o PreorderFrom(elt, path, 1)
PreorderFrom(elt, path, k) ==
  IF k > Len(elt.children) THEN <<>>
  ELSE Preorder(elt.children[k], Append(path, k)) \o PreorderFrom(elt, path, k + 1)

\* an AreaFilter's apply() that left r of elt, and the two children lines
\* 110-111 took out
AreaEffect(elt, r) ==
  [err |-> r.err, key |-> <<>>, elt |-> r.elt,
   out |-> IF r.called /\ r.err = "" /\ ~r.ret.none THEN elt.children ELSE <<>>]

\* filter_obj.apply(self, elt, data_dict) (line 394): the error raised, the
\* key it names, the element afterwards, and the children that elt.remove
\* (lines 110-111, 205) and elt.clear (line 212) took out of it
Apply(filter_obj, elt, row) ==
  IF filter_obj = "TextFilter"
  THEN LET r == TextApply(elt, row) IN
         [err |-> r.err, key |-> r.key, elt |-> r.elt, out |-> <<>>]
  ELSE IF filter_obj = "ShowFilter"
  THEN LET r == ShowApply(elt) IN
         [err |-> r.err, key |-> <<>>, elt |-> r.elt,
          out |-> IF r.cmd_idx = 0 THEN <<>>
                  ELSE <<elt.children[r.cmd_idx]>>
                         \o (IF r.err = "" /\ r.elt.children = <<>>
                             THEN RemoveAt(elt.children, r.cmd_idx) ELSE <<>>)]
  ELSE AreaEffect(elt, AreaApply(filter_obj, elt))

(***************************************************************************)
(* The templates, rows and filter lists that are drawn.                    *)
(***************************************************************************)
WithId(elt, id) == SetAttr(elt, "id", id)

\* <g id><text id>%(k)</text></g>
FragText ==
  WithId(GroupElt(<<WithId(TextElt(<<"%", "(", "k", ")">>), <<"t", "1">>)>>), <<"g", "1">>)

\* <g id><text id>a<tspan id>b</tspan>%(k)</text></g>: the pattern is the
\* tail of the tspan
FragTail ==
  WithId(GroupElt(<<WithId(SvgElt("text", NoAttrib, <<"a">>,
      <<[WithId(SvgElt("tspan", NoAttrib, <<"b">>, <<>>), <<"s", "2">>)
           EXCEPT !.tail = <<"%", "(", "k", ")">>]>>), <<"t", "2">>)>>), <<"g", "2">>)

\* a group that is shown for k = A only
FragShow ==
  WithId(GroupElt(<<WithId(TextElt(<<"#", "s", "h", "o", "w", "e", "q", " ", "%", "(", "k", ")", " ", "A">>), <<"c", "3">>),
                    WithId(TextElt(<<"h", "i">>), <<"h", "3">>)>>), <<"g", "3">>)

FragStyle ==
  WithId(GroupElt(<<WithId(PlainRect, <<"r", "4">>),
                    WithId(TextElt(<<"#", "s", "t", "y", "l", "e", " ", "f", "i", "l", "l", "=", "%", "(", "k", ")">>), <<"c", "4">>)>>), <<"g", "4">>)

\* a rectangle as wide as the barcode of a one-character payload
FragBarcode ==
  WithId(GroupElt(<<WithId(RectElt(<<"4", "6">>, <<"f", "i", "l", "l", ":", "n", "o", "n", "e">>), <<"r", "5">>),
                    WithId(SpanText(<<"#", "c", "o", "d", "e", "1", "2", "8", " ", "%", "(", "k", ")", " ", "t", "h", "i", "c", "k", "n", "e", "s", "s", "=", "1", " ", "q", "u", "i", "e", "t", "=", "F", "a", "l", "s", "e">>), <<"c", "5">>)>>),
         <<"g", "5">>)

FragSvg ==
  WithId(GroupElt(<<WithId(TextElt(<<"#", "s", "v", "g", " ", "f">>), <<"c", "6">>),
                    WithId(PlainRect, <<"r", "6">>)>>), <<"g", "6">>)

\* a styled group inside a group that is shown for k = A only
FragNested ==
  WithId(GroupElt(<<WithId(GroupElt(<<WithId(PlainRect, <<"r", "8">>),
                                      WithId(TextElt(<<"#", "s", "t", "y", "l", "e", " ", "f", "i", "l", "l", "=", "r", "e", "d">>), <<"c", "8">>)>>),
                           <<"g", "8">>),
                    WithId(TextElt(<<"#", "s", "h", "o", "w", "e", "q", " ", "%", "(", "k", ")", " ", "A">>), <<"c", "7">>)>>), <<"g", "7">>)

Frags == <<FragText, FragTail, FragShow, FragStyle, FragBarcode, FragSvg,
           FragNested>>

Defs == WithId(SvgElt("defs", NoAttrib, <<>>, <<>>), <<"d", "0">>)
Meta == WithId(SvgElt("metadata", NoAttrib, <<>>, <<>>), <<"m", "0">>)

\* the root element of a template file
Doc(children) ==
  SvgElt("svg", [width |-> <<"1", "0", "0">>, height |-> <<"5", "0">>], <<>>, children)

\* one or two template groups behind the defs
GenDocs ==
  {Doc(<<Defs, Frags[i]>>) : i \in 1..Len(Frags)}
    \cup UNION {{Doc(<<Defs, Frags[i], Frags[j]>>) : j \in (1..Len(Frags)) \ {i}} :
                  i \in 1..Len(Frags)}

\* template groups among other top-level children, equal ones among them
IsoDocs ==
  {Doc(<<Defs, FragShow, WithId(PlainRect, <<"x", "0">>), FragStyle>>),
   Doc(<<Meta, FragText, Meta, FragText>>),
   Doc(<<FragTail, Meta>>),
   Doc(<<Defs>>)}

Rows == {<<>>, << <<<<"k">>, <<"A">>>> >>, << <<<<"k">>, <<"B">>>> >>}

\* labelmaker.py lines 93-95 and labelprinter.py lines 46-52
FilterLists ==
  {<<"TextFilter", "BarcodeFilter", "StyleFilter">>,
   <<"TextFilter", "ShowFilter", "BarcodeFilter", "StyleFilter", "SvgFilter">>}

(***************************************************************************)
(* A template object and its caller: construction, then clone_base() and   *)
(* generate() calls one after the other, and between them what the caller  *)
(* does to the trees it was handed.                                        *)
(***************************************************************************)
TemplateIdle ==
  /\ doc = Doc(<<>>) /\ filters = <<>> /\ heap = <<>> /\ base_etree = 0
  /\ template_elts = <<>> /\ pages = <<>> /\ cloned = <<>> /\ returned = <<>>
  /\ budget = 0
  /\ gpc = "idle" /\ row_dict = <<>> /\ elts = <<>> /\ fidx = 0 /\ eidx = 0
  /\ stack = <<>> /\ visits = <<>> /\ taken = {} /\ gone = {}
  /\ passes = <<>> /\ gerr = "" /\ gkey = <<>>

\* after SvgTemplate.__init__ (lines 366-377) on one of docs, with a caller
\* that makes calls calls
TemplateInit(docs, calls) ==
  /\ doc \in docs
  /\ filters \in FilterLists
  /\ heap = <<Construct(doc).base>> \o Construct(doc).template_elts
  /\ base_etree = 1
  /\ template_elts = [k \in 1..Len(Construct(doc).template_elts) |-> k + 1]
  /\ pages = <<>> /\ cloned = <<>> /\ returned = <<>>
  /\ budget = calls
  /\ gpc = "idle" /\ row_dict = <<>> /\ elts = <<>> /\ fidx = 0 /\ eidx = 0
  /\ stack = <<>> /\ visits = <<>> /\ taken = {} /\ gone = {}
  /\ passes = <<>> /\ gerr = "" /\ gkey = <<>>

\* the trees behind refs as they are now
Trees(h, refs) == [k \in 1..Len(refs) |-> h[refs[k]]]

\* generate() up to its loops (lines 392-398)
BeginGenerate(row) ==
  /\ gpc /= "running" /\ budget > 0
  /\ LET c == DeepCopy(heap, template_elts) IN
       /\ heap' = c.heap
       /\ elts' = c.refs
  /\ gpc' = "running" /\ row_dict' = row /\ budget' = budget - 1
  /\ fidx' = 1 /\ eidx' = 1 /\ stack' = <<>>
  /\ visits' = <<>> /\ taken' = {} /\ gone' = {} /\ passes' = <<>>
  /\ gerr' = "" /\ gkey' = <<>>
  /\ UNCHANGED <<doc, filters, base_etree, template_elts, pages, cloned, returned>>
  /\ UNCHANGED nonTemplateVars

\* is <<f, e>> a filter and a fragment the loops of lines 399-400 reach
InLoops(f, e) == f \in 1..Len(filters) /\ e \in 1..Len(elts)

\* loops that run every filter on a fragment before they take the next
\* fragment
NextPosByFragment(f, e) ==
  IF f < Len(filters) THEN <<f + 1, e>> ELSE <<1, e + 1>>

\* lines 399-400: the fragment loop is inside the filter loop
NextPos(f, e) ==
  IF e < Len(elts) THEN <<f, e + 1>> ELSE <<f + 1, 1>>

\* what an apply() call that left r of node, the element at path of the
\* current fragment, does to the state; frames is the stack below the frame
\* of the loop of line 395 that comes next
Visited(path, frames, node, r) ==
  /\ heap' = [heap EXCEPT ![elts[eidx]] = ReplaceAt(@, path, r.elt)]
  /\ visits' = Append(visits, [f |-> fidx, e |-> eidx, path |-> path,
                               id |-> Get(node, "id", NoneStr)])
  /\ taken' = taken \cup {<<fidx, i>> : i \in IdsOf(r.out)}
  /\ gone' = gone \cup {<<fidx, i>> : i \in IdsOf(r.out) \ Ids(r.elt)}
  /\ IF r.err = ""
     THEN /\ gpc' = "running" /\ stack' = Append(frames, <<path, 0>>)
          /\ UNCHANGED <<gerr, gkey>>
     ELSE /\ gpc' = "raised" /\ stack' = <<>>
          /\ gerr' = r.err /\ gkey' = r.key
  /\ UNCHANGED <<doc, filters, base_etree, template_elts, pages, cloned,
                 returned, budget, row_dict, elts, fidx, eidx, passes>>
  /\ UNCHANGED nonTemplateVars

\* substitute() at its first line (line 394) on node
VisitNode(path, frames, node) ==
  Visited(path, frames, node, Apply(filters[fidx], node, row_dict))

\* substitute() at its first line on the element at path
Visit(path, frames) ==
  VisitNode(path, frames, NodeAt(heap[elts[eidx]], path))

\* line 401: substitute(filter_obj, elt) on a fragment
Substitute ==
  /\ gpc = "running" /\ stack = <<>> /\ InLoops(fidx, eidx)
  /\ Visit(<<>>, <<>>)

\* lines 395-396: the loop over the children as they are now takes its next
\* child
VisitChild ==
  /\ gpc = "running" /\ stack /= <<>>
  /\ LET top == stack[Len(stack)] IN
       /\ top[2] < Len(NodeAt(heap[elts[eidx]], top[1]).children)
       /\ Visit(Append(top[1], top[2] + 1),
                [stack EXCEPT ![Len(stack)] = <<top[1], top[2] + 1>>])

\* line 395: the loop over the children is exhausted and substitute()
\* returns; with the last frame the loops of lines 399-400 move on
EndChildren ==
  /\ gpc = "running" /\ stack /= <<>>
  /\ LET top == stack[Len(stack)] IN
       top[2] >= Len(NodeAt(heap[elts[eidx]], top[1]).children)
  /\ stack' = SubSeq(stack, 1, Len(stack) - 1)
  /\ IF Len(stack) = 1
     THEN /\ fidx' = NextPos(fidx, eidx)[1]
          /\ eidx' = NextPos(fidx, eidx)[2]
          /\ passes' = IF fidx' /= fidx THEN Append(passes, Trees(heap, elts))
                       ELSE passes
     ELSE UNCHANGED <<fidx, eidx, passes>>
  /\ UNCHANGED <<doc, filters, heap, base_etree, template_elts, pages, cloned,
                 returned, budget, gpc, row_dict, elts, visits, taken, gone,
                 gerr, gkey>>
  /\ UNCHANGED nonTemplateVars

\* line 403
Return ==
  /\ gpc = "running" /\ stack = <<>> /\ ~InLoops(fidx, eidx)
  /\ gpc' = "done"
  /\ returned' = Append(returned, [row |-> row_dict, refs |-> elts,
                                   trees |-> Trees(heap, elts), used |-> FALSE])
  /\ UNCHANGED <<doc, filters, heap, base_etree, template_elts, pages, cloned,
                 budget, row_dict, elts, fidx, eidx, stack, visits, taken,
                 gone, passes, gerr, gkey>>
  /\ UNCHANGED nonTemplateVars

GenerateNext ==
  \/ \E row \in Rows : BeginGenerate(row)
  \/ Substitute
  \/ VisitChild
  \/ EndChildren
  \/ Return

\* a call of clone_base() (labelmaker.py line 145)
CloneBase ==
  /\ gpc /= "running" /\ budget > 0
  /\ LET c == clone_base(heap, base_etree) IN
       /\ heap' = c.heap
       /\ pages' = Append(pages, c.ref)
       /\ cloned' = Append(cloned, c.heap[c.ref])
  /\ budget' = budget - 1
  /\ UNCHANGED <<doc, filters, base_etree, template_elts, returned>>
  /\ UNCHANGED generateVars
  /\ UNCHANGED nonTemplateVars

\* labelmaker.py lines 163-167: the elements generate() returned go into a
\* new group at the end of the page that was cloned last
AppendInstance ==
  /\ gpc = "done" /\ pages /= <<>>
  /\ ~returned[Len(returned)].used
  /\ LET page == pages[Len(pages)]
         new_group == SvgElt("g", [transform |-> <<"t", "r", "a", "n", "s", "l", "a", "t", "e", "(", "0", " ", ",", "0", ")">>], <<>>,
                             Trees(heap, returned[Len(returned)].refs))
     IN heap' = [heap EXCEPT ![page].children = Append(@, new_group)]
  /\ returned' = [returned EXCEPT ![Len(returned)].used = TRUE]
  /\ UNCHANGED <<doc, filters, base_etree, template_elts, pages, cloned, budget>>
  /\ UNCHANGED generateVars
  /\ UNCHANGED nonTemplateVars

\* the references the caller holds: what clone_base() and generate() returned
Held ==
  {pages[i] : i \in 1..Len(pages)}
    \cup UNION {{returned[i].refs[k] : k \in 1..Len(returned[i].refs)} :
                  i \in 1..Len(returned)}

\* the caller changes a tree it holds: it empties it, or it sets an attribute
Mutate(ref, how) ==
  /\ gpc /= "running" /\ budget > 0
  /\ ref \in Held
  /\ heap' = [heap EXCEPT ![ref] = IF how = "clear" THEN Clear(@)
                                   ELSE SetAttr(@, "id", <<"z", "z">>)]
  /\ budget' = budget - 1
  /\ UNCHANGED <<doc, filters, base_etree, template_elts, pages, cloned,
                 returned>>
  /\ UNCHANGED generateVars
  /\ UNCHANGED nonTemplateVars

TemplateNext ==
  \/ GenerateNext
  \/ CloneBase
  \/ AppendInstance
  \/ \E ref \in 1..Len(heap), how \in {"clear", "set"} : Mutate(ref, how)

(***************************************************************************)
(* StyleFilter.replace on a rectangle, and once more with the same command *)
(* on the rectangle the first call left.                                   *)
(***************************************************************************)
\* a #style command carries at most MaxStyleArgs arguments
MaxStyleArgs == 2

\* style attributes: one or two declarations, among them ones with a key
\* twice, and an attribute that is empty
StyleDecls == {<<"f", "i", "l", "l", ":", "n", "o", "n", "e">>, <<"f", "i", "l", "l", ":", "r", "e", "d">>, <<"s", "t", "r", "o", "k", "e", ":", "b", "l", "u", "e">>, <<"x", ":", "1">>}
StyleStrings ==
  StyleDecls \cup {a \o <<";">> \o b : a, b \in StyleDecls} \cup {<<>>}

\* keyword arguments that overwrite a key, that bring a new key, whose value
\* is empty or holds a ':' or a ';', and a positional argument
StyleTokens ==
  {<<"f", "i", "l", "l", "=", "r", "e", "d">>, <<"f", "i", "l", "l", "=", "b", "l", "u", "e">>, <<"t", "=", "1">>, <<"x", "=">>, <<"f", "i", "l", "l", "=", "a", ":", "b">>, <<"t", "=", "a", ";", "b">>, <<"p">>}
StyleCmdTexts ==
  {<<"#", "s", "t", "y", "l", "e">> \o Join([i \in 1..Len(args) |-> <<" ">> \o args[i]], <<>>) :
     args \in SeqsUpTo(StyleTokens, MaxStyleArgs)}

NoStyleResult ==
  ReplaceResult("", TRUE, <<>>, FailedCommand(<<>>, "uncalled"), RectElt(<<>>, <<>>))

StyleIdle ==
  /\ spc = "idle" /\ style_cmd = <<>> /\ style_rect = RectElt(<<>>, <<>>)
  /\ style_once = NoStyleResult /\ style_twice = NoStyleResult

StyleInit ==
  /\ spc = "ready"
  /\ style_cmd \in StyleCmdTexts
  /\ style_rect \in {RectElt(<<"9">>, style) : style \in StyleStrings}
  /\ style_once = NoStyleResult /\ style_twice = NoStyleResult

\* replace(template, command_text, rect_elt)
ReplaceOnce ==
  /\ spc = "ready"
  /\ spc' = "once"
  /\ style_once' = StyleReplace(style_cmd, style_rect)
  /\ UNCHANGED <<style_cmd, style_rect, style_twice>>
  /\ UNCHANGED nonStyleVars

\* the same call on the rectangle the first call returned
ReplaceTwice ==
  /\ spc = "once" /\ style_once.err = ""
  /\ spc' = "twice"
  /\ style_twice' = StyleReplace(style_cmd, style_once.rect_elt)
  /\ UNCHANGED <<style_cmd, style_rect, style_once>>
  /\ UNCHANGED nonStyleVars

StyleNext == ReplaceOnce \/ ReplaceTwice

(***************************************************************************)
(* labelprinter.py: the watch loop.  The data file belongs to whoever      *)
(* edits it: its rows and its modification time change at any moment.      *)
(***************************************************************************)
\* the file is changed at most MaxMods times
MaxMods == 2
\* the file holds at most MaxFileRows rows
MaxFileRows == 2

\* the characters of keys and values in the order of their code points
Alphabet == <<"1", "2", "a", "b">>
Ord(ch) == CHOOSE i \in 1..Len(Alphabet) : Alphabet[i] = ch

\* s < t for Python strings
RECURSIVE StrLess(_, _)
StrLess(s, t) ==
  IF t = <<>> THEN FALSE
  ELSE IF s = <<>> THEN TRUE
  ELSE IF Head(s) /= Head(t) THEN Ord(Head(s)) < Ord(Head(t))
  ELSE StrLess(Tail(s), Tail(t))

\* p < q for (k, v) tuples
PairLess(p, q) == StrLess(p[1], q[1]) \/ (p[1] = q[1] /\ StrLess(p[2], q[2]))

\* sorted(items)
RECURSIVE Sorted(_)
Sorted(items) ==
  IF items = <<>> THEN <<>>
  ELSE LET least == CHOOSE i \in 1..Len(items) :
                      \A j \in 1..Len(items) : ~PairLess(items[j], items[i])
       IN <<items[least]>> \o Sorted(RemoveAt(items, least))

\* canonicalize_row_dict (lines 62-63)
HasValue(kv) == kv[2] /= <<>>
canonicalize_row_dict(rd) == Sorted(SelectSeq(rd, HasValue))

\* traverse (lines 65-73) with a row_dict_fn that does nothing: the seen_set
\* it returns
RECURSIVE traverse(_)
traverse(rows) ==
  IF rows = <<>> THEN {}
  ELSE {canonicalize_row_dict(Head(rows))} \cup traverse(Tail(rows))

\* rows under the header b,a, and one under the header a
RowDicts ==
  {<< <<<<"b">>, <<"1">>>>, <<<<"a">>, <<>> >> >>,
   << <<<<"b">>, <<>> >>, <<<<"a">>, <<"1">>>> >>,
   << <<<<"b">>, <<"2">>>>, <<<<"a">>, <<"1">>>> >>,
   << <<<<"a">>, <<"1">>>> >>}

FileContents == SeqsUpTo(RowDicts, MaxFileRows)

WatchIdle ==
  /\ wpc = "off" /\ data_fresh = FALSE /\ only_parse_key = FALSE
  /\ file_exists = FALSE /\ file_rows = <<>> /\ mod_time = 0 /\ nmods = 0
  /\ last_mod_time = 0 /\ seen_set = {} /\ reading = <<>> /\ scan_pos = 0
  /\ new_seen = {} /\ scan_mod = 0 /\ scan_prev = {} /\ scan_out = <<>>
  /\ nscans = 0 /\ in_flight = 0 /\ werr = ""

\* the arguments are parsed and the template is built (lines 18-60)
WatchInit ==
  /\ wpc = "start"
  /\ data_fresh \in BOOLEAN /\ only_parse_key \in BOOLEAN
  /\ file_exists \in BOOLEAN
  /\ file_rows \in FileContents
  /\ (~file_exists => file_rows = <<>>)
  /\ mod_time = 1 /\ nmods = 0
  /\ last_mod_time = 0 /\ seen_set = {} /\ reading = <<>> /\ scan_pos = 0
  /\ new_seen = {} /\ scan_mod = 0 /\ scan_prev = {} /\ scan_out = <<>>
  /\ nscans = 0 /\ in_flight = 0 /\ werr = ""

\* lines 107-113: the seen_set and last_mod_time the loop starts with.
\* os.path.getmtime raises for a file that is not there.
Startup ==
  /\ wpc = "start"
  /\ IF data_fresh
       THEN /\ last_mod_time' = 0 /\ seen_set' = {} /\ wpc' = "idle"
            /\ werr' = werr
     ELSE IF ~file_exists
       THEN /\ wpc' = "crashed" /\ werr' = "FileNotFoundError"
            /\ UNCHANGED <<last_mod_time, seen_set>>
     ELSE /\ last_mod_time' = mod_time /\ seen_set' = traverse(file_rows)
          /\ wpc' = "idle" /\ werr' = werr
  /\ UNCHANGED <<data_fresh, only_parse_key, file_exists, file_rows, mod_time,
                 nmods, reading, scan_pos, new_seen, scan_mod, scan_prev,
                 scan_out, nscans, in_flight>>
  /\ UNCHANGED nonWatchVars

\* one iteration of the loop (lines 115-128) up to the call of traverse,
\* and all of it when there is nothing to scan
Poll ==
  /\ wpc = "idle"
  /\ IF file_exists /\ (last_mod_time = 0 \/ mod_time /= last_mod_time)
       THEN /\ wpc' = "scan"
            /\ reading' = file_rows /\ scan_pos' = 1 /\ new_seen' = {}
            /\ scan_mod' = mod_time /\ scan_prev' = seen_set
            /\ scan_out' = <<>> /\ nscans' = nscans + 1
            /\ last_mod_time' = last_mod_time
     ELSE /\ last_mod_time' = IF file_exists THEN mod_time ELSE last_mod_time
          /\ UNCHANGED <<wpc, reading, scan_pos, new_seen, scan_mod,
                         scan_prev, scan_out, nscans>>
  /\ UNCHANGED <<data_fresh, only_parse_key, file_exists, file_rows, mod_time,
                 nmods, seen_set, in_flight, werr>>
  /\ UNCHANGED nonWatchVars

\* the body of the loop of traverse (lines 70-71) with actual_fn (lines
\* 76-96) up to the start of inkscape; generated tells whether
\* template.generate returned
ScanRow(generated) ==
  /\ wpc = "scan" /\ scan_pos <= Len(reading)
  /\ LET canonical_row_dict == canonicalize_row_dict(reading[scan_pos]) IN
       /\ new_seen' = new_seen \cup {canonical_row_dict}
       /\ IF only_parse_key
            THEN \* row is no name of actual_fn
                 /\ wpc' = "crashed" /\ werr' = "NameError"
                 /\ UNCHANGED <<scan_pos, in_flight>>
          ELSE IF canonical_row_dict \in scan_prev
            THEN /\ scan_pos' = scan_pos + 1
                 /\ UNCHANGED <<wpc, werr, in_flight>>
          ELSE IF ~generated
            THEN /\ wpc' = "crashed" /\ werr' = "Exception"
                 /\ UNCHANGED <<scan_pos, in_flight>>
          ELSE /\ wpc' = "render" /\ in_flight' = in_flight + 1
               /\ UNCHANGED <<scan_pos, werr>>
  /\ UNCHANGED <<data_fresh, only_parse_key, file_exists, file_rows, mod_time,
                 nmods, last_mod_time, seen_set, reading, scan_mod, scan_prev,
                 scan_out, nscans>>
  /\ UNCHANGED nonWatchVars

\* communicate() returns and the page is sent to the printer (lines 97-103)
RenderDone ==
  /\ wpc = "render"
  /\ in_flight' = in_flight - 1
  /\ scan_out' = Append(scan_out, canonicalize_row_dict(reading[scan_pos]))
  /\ scan_pos' = scan_pos + 1
  /\ wpc' = "scan"
  /\ UNCHANGED <<data_fresh, only_parse_key, file_exists, file_rows, mod_time,
                 nmods, last_mod_time, seen_set, reading, new_seen, scan_mod,
                 scan_prev, nscans, werr>>
  /\ UNCHANGED nonWatchVars

\* traverse returns (line 73) and the iteration ends (lines 121-124)
EndScan ==
  /\ wpc = "scan" /\ scan_pos > Len(reading)
  /\ seen_set' = new_seen
  /\ last_mod_time' = scan_mod
  /\ wpc' = "idle"
  /\ UNCHANGED <<data_fresh, only_parse_key, file_exists, file_rows, mod_time,
                 nmods, reading, scan_pos, new_seen, scan_mod, scan_prev,
                 scan_out, nscans, in_flight, werr>>
  /\ UNCHANGED nonWatchVars

\* somebody saves, removes or restores the data file
ModifyFile(exists, rows) ==
  /\ wpc \in {"start", "idle", "scan", "render"}
  /\ nmods < MaxMods
  /\ (~exists => rows = <<>>)
  /\ file_exists' = exists /\ file_rows' = rows
  /\ mod_time' = mod_time + 1 /\ nmods' = nmods + 1
  /\ UNCHANGED <<wpc, data_fresh, only_parse_key, last_mod_time, seen_set,
                 reading, scan_pos, new_seen, scan_mod, scan_prev, scan_out,
                 nscans, in_flight, werr>>
  /\ UNCHANGED nonWatchVars

WatchNext ==
  \/ Startup
  \/ Poll
  \/ \E generated \in BOOLEAN : ScanRow(generated)
  \/ RenderDone
  \/ EndScan
  \/ \E exists \in BOOLEAN : \E rows \in FileContents : ModifyFile(exists, rows)

(***************************************************************************)
(* Claims about SvgTemplate.generate and the trees of a template.          *)
(***************************************************************************)
\* the keys of the %(key) patterns in s from place i on
RECURSIVE PatternKeys(_, _)
PatternKeys(s, i) ==
  IF i > Len(s) THEN {}
  ELSE (IF MatchAt(s, i) THEN {SubSeq(s, i + 2, i + 1 + KeyRun(s, i + 2))} ELSE {})
         \cup PatternKeys(s, i + 1)

\* the keys of the patterns that stand anywhere in the markup of elt: in the
\* text, the tail or an attribute value of elt or of an element below it
RECURSIVE MarkupKeys(_)
RECURSIVE MarkupKeysOf(_)
MarkupKeys(elt) ==
  PatternKeys(elt.text, 1) \cup PatternKeys(elt.tail, 1)
    \cup UNION {PatternKeys(elt.attrib[a], 1) : a \in DOMAIN elt.attrib}
    \cup MarkupKeysOf(elt.children)
MarkupKeysOf(children) ==
  IF children = <<>> THEN {}
  ELSE MarkupKeys(Head(children)) \cup MarkupKeysOf(Tail(children))

\* the keys the template refers to and the row lacks
MissingKeys ==
  {key \in MarkupKeysOf(Trees(heap, template_elts)) : ~HasKey(row_dict, key)}

\* C8: whenever the template holds a pattern %(key) whose key the row lacks,
\* a generate() call that has ended has raised the missing-key error, and the
\* error names such a key; generate() never returns with the pattern left in
\* place.
C8_MissingKeyFatal ==
  (gpc \in {"done", "raised"} /\ MissingKeys /= {})
    => (gpc = "raised" /\ gerr = "AssertionError" /\ gkey \in MissingKeys)

\* the apply() calls of filter f so far, as <<fragment, path>> in call order
RECURSIVE VisitsOf(_, _)
VisitsOf(f, i) ==
  IF i > Len(visits) THEN <<>>
  ELSE (IF visits[i].f = f THEN << <<visits[i].e, visits[i].path>> >> ELSE <<>>)
         \o VisitsOf(f, i + 1)

\* the elements of the fragments trees from fragment e on, parents before
\* their descendants, as <<fragment, path>>
RECURSIVE DocumentOrder(_, _)
DocumentOrder(trees, e) ==
  IF e > Len(trees) THEN <<>>
  ELSE LET paths == Preorder(trees[e], <<>>) IN
         [k \in 1..Len(paths) |-> <<e, paths[k]>>] \o DocumentOrder(trees, e + 1)

\* every apply() call of an earlier filter is before every call of a later one
FiltersInOrder ==
  \A a, b \in 1..Len(visits) : a < b => visits[a].f <= visits[b].f

\* a pass that has ended made one call per element that was in the tree when
\* the visit of its parent ended, also per element the filter put in, and
\* made it before the calls on the descendants of the element
OncePerNode ==
  /\ \A f \in 1..Len(passes) : VisitsOf(f, 1) = DocumentOrder(passes[f], 1)
  /\ \A a, b \in 1..Len(visits) :
       (a /= b /\ visits[a].f = visits[b].f /\ visits[a].e = visits[b].e)
         => visits[a].path /= visits[b].path

\* C9 as stated: filters run one after the other over all fragments, a pass
\* visits every element once and before its descendants, and an element that
\* the visit of its parent or of an ancestor removed is not visited by that
\* filter.
C9_PipelineOrder ==
  /\ FiltersInOrder
  /\ OncePerNode
  /\ \A t \in taken : \A i \in 1..Len(visits) :
       ~(visits[i].f = t[1] /\ visits[i].id = t[2])

\* C9, amended: as above, where the elements that are not visited are the
\* ones a visit removed and did not put back before it ended (StyleFilter
\* puts the rectangle back, and then visits it).
C9_PipelineOrderKept ==
  /\ FiltersInOrder
  /\ OncePerNode
  /\ \A t \in gone : \A i \in 1..Len(visits) :
       ~(visits[i].f = t[1] /\ visits[i].id = t[2])

\* generate() has returned two fragments after five passes in which a filter
\* removed an element for good, put another one back, and inserted elements
\* of its own that were then visited
C9_Witness ==
  /\ gpc = "done" /\ Len(elts) = 2 /\ Len(passes) = 5
  /\ gone /= {} /\ taken /= gone
  /\ \E i \in 1..Len(visits) : visits[i].id = NoneStr

IsTemplateChild(child_elt) == strip_tag(child_elt.tag) \in SVG_ELEMENTS
IsBaseChild(child_elt) == ~IsTemplateChild(child_elt)

\* the base as construction leaves it
SplitBase == [doc EXCEPT !.children = SelectSeq(@, IsBaseChild)]

\* C10: the stored base is the document without its top-level children on
\* the allow-list, the stored fragments are those children, each once and in
\* order, and both stay so whatever is called and whatever is done to the
\* returned trees; generate() returns equal results for equal rows; every
\* clone_base() returns the base as construction left it.
C10_Isolation ==
  /\ heap[base_etree] = SplitBase
  /\ Trees(heap, template_elts) = SelectSeq(doc.children, IsTemplateChild)
  /\ Len(heap[base_etree].children) + Len(template_elts) = Len(doc.children)
  /\ \A i, j \in 1..Len(returned) :
       returned[i].row = returned[j].row => returned[i].trees = returned[j].trees
  /\ \A i \in 1..Len(cloned) : cloned[i] = SplitBase

\* a second page has been cloned after an instance went into the first one
C10_Witness ==
  /\ Len(cloned) = 2 /\ Len(returned) = 1 /\ returned[1].used
  /\ returned[1].trees /= <<>>
  /\ heap[pages[1]] /= cloned[1]
  /\ Len(doc.children) > Len(template_elts)

\* the declarations of a style string as <<key, value>> pairs
Declarations(style) ==
  LET pieces == Split(style, ";") IN
    [i \in 1..Len(pieces) |-> Split(pieces[i], ":")]

\* orig with the values of the same-named items of kws, and behind it the
\* items of kws whose key orig does not have
Overlaid(orig, kws) ==
  LET IsNew(kv) == ~HasKey(orig, kv[1]) IN
    [i \in 1..Len(orig) |->
       <<orig[i][1],
         IF HasKey(kws, orig[i][1]) THEN Lookup(kws, orig[i][1]) ELSE orig[i][2]>>]
      \o SelectSeq(kws, IsNew)

\* C12: for a style the filter accepts and a #style command with keyword
\* arguments, the style after one call holds the keys it had in their order,
\* with the values of the same-named keyword arguments, and the new keys
\* behind them; a second call with the same command on the result succeeds
\* and leaves the style string of the first.
C12_StyleIdempotent ==
  (spc \in {"once", "twice"} /\ style_once.err = ""
     /\ style_once.cmd.kw_args /= <<>>)
    => /\ Get(style_once.rect_elt, "style", NoneStr)
            = Join(StyleElts(Overlaid(Declarations(Get(style_rect, "style", NoneStr)),
                                      style_once.cmd.kw_args)), <<";">>)
       /\ spc = "twice" =>
            /\ style_twice.err = ""
            /\ Get(style_twice.rect_elt, "style", NoneStr)
                 = Get(style_once.rect_elt, "style", NoneStr)

(***************************************************************************)
(* Claims about the watch loop of labelprinter.py.                         *)
(***************************************************************************)
\* how often seq holds c
Count(seq, c) == Cardinality({i \in 1..Len(seq) : seq[i] = c})

\* a scan has come to its end, and not by an exception of generate
ScanOver ==
  /\ nscans > 0
  /\ wpc = "idle" \/ (wpc = "crashed" /\ werr = "NameError")

\* the row contents a scan has to render: in the file, not in the seen set
NewContents == traverse(reading) \ scan_prev

\* C13: a scan that a change of the data file set off renders and dispatches
\* exactly once each row content that the file holds and the seen set did not
\* (so nothing for the rows known from start-up, and every content of the
\* first scan under --data_fresh, whose seen set is empty), and nothing else;
\* after it the seen set is the set of the canonicalized rows of the file as
\* it was read; no two renders run at the same time.
C13_SeenSetDispatch ==
  /\ in_flight <= 1
  /\ ScanOver =>
       \A c \in traverse(reading) \cup scan_prev
                  \cup {scan_out[i] : i \in 1..Len(scan_out)} :
         Count(scan_out, c) = IF c \in NewContents THEN 1 ELSE 0
  /\ (nscans > 0 /\ wpc = "idle") => seen_set = traverse(reading)

LayoutStart == LayoutInit /\ CmdIdle /\ FilterIdle /\ TemplateIdle /\ StyleIdle
    /\ WatchIdle

SpecLayout == LayoutStart /\ [][LayoutNext]_vars

CommandStart == CmdInit /\ LayoutIdle /\ FilterIdle /\ TemplateIdle /\ StyleIdle
    /\ WatchIdle

SpecCommand == CommandStart /\ [][CmdNext]_vars

FilterStart == FilterInit /\ LayoutIdle /\ CmdIdle /\ TemplateIdle /\ StyleIdle
    /\ WatchIdle

SpecFilter == FilterStart /\ [][FilterNext]_vars

\* one generate() call on a template
GenerateStart == TemplateInit(GenDocs, 1) /\ LayoutIdle /\ CmdIdle /\ FilterIdle /\ StyleIdle
    /\ WatchIdle

SpecGenerate == GenerateStart /\ [][GenerateNext]_vars

\* a template in the hands of a caller
TemplateStart ==
  TemplateInit(IsoDocs, MaxCalls) /\ LayoutIdle /\ CmdIdle /\ FilterIdle /\ StyleIdle
    /\ WatchIdle

SpecTemplate == TemplateStart /\ [][TemplateNext]_vars

\* StyleFilter.replace applied once and twice
StyleStart ==
  StyleInit /\ LayoutIdle /\ CmdIdle /\ FilterIdle /\ TemplateIdle
    /\ WatchIdle

SpecStyle == StyleStart /\ [][StyleNext]_vars

WatchStart ==
  WatchInit /\ LayoutIdle /\ CmdIdle /\ FilterIdle /\ TemplateIdle
    /\ StyleIdle
SpecWatch == WatchStart /\ [][WatchNext]_vars

====
